---- MODULE Spec2Model ----
(***************************************************************************)
(* Model of the workout step codec of src/src/workoutEditor.ts:            *)
(* the Step Normalizer (transformSingleStep), the Tree Flattener           *)
(* (flattenSteps), the Rest Merger (mergeRestIntoExercises), the           *)
(* renumbering pass of transformWorkoutSteps, the Validator                *)
(* (validateWorkoutStep / validateWorkout / validateWorkoutsForUpload),    *)
(* the Tree Rebuilder (unflattenSteps / convertStepToGarminFormat) and     *)
(* the upload driver (uploadWorkout / uploadWorkoutsFromFile).             *)
(*                                                                         *)
(* JavaScript `undefined` and `null` of a numeric field are both written   *)
(* NoNum, of a string field NoKey (the empty string, which is falsy like   *)
(* undefined in every test the code makes on a string field).              *)
(***************************************************************************)
EXTENDS Integers, Sequences, FiniteSets, TLC

VARIABLES
    wire,       \* IWorkoutStep[] handed to transformWorkoutSteps
    flat,       \* flattenedSteps, the array the merge loop scans
    i,          \* loop index of mergeRestIntoExercises (0-based, as in the code)
    merged,     \* the array mergeRestIntoExercises builds
    emittedAt,  \* history: the value of i at each push onto merged
    plan,       \* WorkoutStep[] returned by transformWorkoutSteps / read from a plan file
    rebuilt,    \* the array returned by unflattenSteps
    pc,         \* position in the pipeline
    workouts,   \* DetailedWorkout[] loaded by uploadWorkoutsFromFile
    dryRun,     \* the dryRun flag
    upc,        \* position in uploadWorkoutsFromFile / uploadWorkout
    uploadIndex, \* loop index i of uploadWorkoutsFromFile (0-based, as in the code)
    errors,     \* the list returned by validateWorkoutsForUpload
    successful, \* counters and list of the upload summary
    failed,
    failedWorkouts,
    outcome,    \* "running", "returned" or "thrown"
    trace,      \* history: validations, remote calls and returns of uploadWorkout
    includeDetails,   \* the argument of fetchWorkoutsWithRaw
    fetched,          \* the list getWorkouts returned (workouts in fetchWorkoutsWithRaw)
    fetchIndex,       \* loop index i of fetchWorkoutsWithRaw (0-based, as in the code)
    rawWorkouts,      \* the two lists fetchWorkoutsWithRaw builds
    detailedWorkouts,
    fpc               \* position in fetchWorkoutsWithRaw

codecVars  == <<wire, flat, i, merged, emittedAt, plan, rebuilt, pc>>
uploadVars == <<workouts, dryRun, upc, uploadIndex, errors, successful, failed, failedWorkouts,
                outcome, trace>>
fetchVars  == <<includeDetails, fetched, fetchIndex, rawWorkouts, detailedWorkouts, fpc>>
vars == <<codecVars, uploadVars, fetchVars>>

----------------------------------------------------------------------------
(* Bounds of the model *)

MaxNodes == 4       \* nodes (leaves plus repeat-groups) in a wire step tree

----------------------------------------------------------------------------
(* Absent values *)

NoNum == 0 - 1000000
NoKey == ""

Min(a, b) == IF a < b THEN a ELSE b

----------------------------------------------------------------------------
(* Lookup tables of the Rebuilder *)

\* The lookup tables are object literals, and mapping[key] also finds the
\* members every object inherits from Object.prototype: for such a key the
\* result of mapping[key] || default is the inherited function or object,
\* which is truthy and not a number.
ObjectPrototypeMembers ==
    {"constructor", "toString", "toLocaleString", "valueOf", "hasOwnProperty",
     "isPrototypeOf", "propertyIsEnumerable", "__proto__", "__defineGetter__",
     "__defineSetter__", "__lookupGetter__", "__lookupSetter__"}

InheritedMember == 0 - 2000000

getStepTypeId(stepTypeKey) ==
    CASE stepTypeKey \in ObjectPrototypeMembers -> InheritedMember
      [] stepTypeKey = "warmup"   -> 1
      [] stepTypeKey = "cooldown" -> 2
      [] stepTypeKey = "interval" -> 3
      [] stepTypeKey = "recovery" -> 4
      [] stepTypeKey = "rest"     -> 3
      [] stepTypeKey = "exercise" -> 6
      [] stepTypeKey = "repeat"   -> 7
      [] stepTypeKey = "other"    -> 8
      [] OTHER                    -> 6

getEndConditionId(endConditionKey) ==
    CASE endConditionKey \in ObjectPrototypeMembers -> InheritedMember
      [] endConditionKey = "lap.button" -> 1
      [] endConditionKey = "time"       -> 2
      [] endConditionKey = "distance"   -> 3
      [] endConditionKey = "calories"   -> 4
      [] endConditionKey = "heart.rate" -> 5
      [] endConditionKey = "reps"       -> 6
      [] endConditionKey = "iterations" -> 7
      [] OTHER                          -> 1

getTargetTypeId(targetTypeKey) ==
    CASE targetTypeKey \in ObjectPrototypeMembers -> InheritedMember
      [] targetTypeKey = "no.target"       -> 1
      [] targetTypeKey = "heart.rate.zone" -> 2
      [] targetTypeKey = "pace.zone"       -> 3
      [] targetTypeKey = "speed.zone"      -> 4
      [] targetTypeKey = "power.zone"      -> 6
      [] targetTypeKey = "cadence.zone"    -> 7
      [] targetTypeKey = "open"            -> 8
      [] OTHER                             -> 1

----------------------------------------------------------------------------
(* Unit Converter.  453.59237 = 45359237 / 100000; the products are split  *)
(* so that every intermediate value stays inside 32 bits.                  *)

\* smallest integer v with Math.round(v / 453.59237) >= n, i.e.
\* v >= (2n - 1) * 45359237 / 200000 = 226 * (2n - 1) + (2n - 1) * 159237 / 200000
RoundsUpTo(n) ==
    LET m == 2 * n - 1
    IN  226 * m + ((m * 159237 + 199999) \div 200000)

\* mutant: the unit is not looked at, a value in pounds is divided too
convertGarminWeightAsGrams(weightValue, weightUnit) ==
    IF weightValue = 0 THEN 0
    ELSE CHOOSE n \in 0 .. (weightValue \div 453 + 1) :
            RoundsUpTo(n) <= weightValue /\ weightValue < RoundsUpTo(n + 1)

convertGarminWeight(weightValue, weightUnit) ==
    IF weightValue = 0 THEN 0
    ELSE IF weightUnit.unitKey = "pound" THEN weightValue
    ELSE CHOOSE n \in 0 .. (weightValue \div 453 + 1) :
            RoundsUpTo(n) <= weightValue /\ weightValue < RoundsUpTo(n + 1)

\* mutant: the product is truncated (Math.floor) instead of rounded
convertWeightToGramsTruncated(weightLbs) ==
    453 * weightLbs + ((weightLbs * 59237) \div 100000)

convertWeightToGrams(weightLbs) ==
    453 * weightLbs + ((weightLbs * 59237 + 50000) \div 100000)

----------------------------------------------------------------------------
(* Wire format (IWorkoutStep): leaves and repeat-groups.  The fields the   *)
(* Rebuilder always writes as null (stepId, childStepId, description,      *)
(* preferredEndConditionUnit, zoneNumber, secondaryX) carry no behaviour  *)
(* and are left out of the records.                                        *)

NoUnit == [unitId |-> NoNum, unitKey |-> NoKey]

WireLeaf(stKey, order, name, ttKey, tv1, tv2, ecKey, ecVal, wVal, wUnit, wDisp, bPct, bKey) ==
    [ type                |-> "ExecutableStepDTO",
      stepOrder           |-> order,
      stepType            |-> [ stepTypeId  |-> IF stKey = NoKey THEN NoNum ELSE getStepTypeId(stKey),
                                stepTypeKey |-> stKey ],
      exerciseName        |-> name,
      targetType          |-> [ workoutTargetTypeId  |-> IF ttKey = NoKey THEN NoNum ELSE getTargetTypeId(ttKey),
                                workoutTargetTypeKey |-> ttKey ],
      targetValueOne      |-> tv1,
      targetValueTwo      |-> tv2,
      endCondition        |-> [ conditionTypeId  |-> IF ecKey = NoKey THEN NoNum ELSE getEndConditionId(ecKey),
                                conditionTypeKey |-> ecKey ],
      endConditionValue   |-> ecVal,
      weightValue         |-> wVal,
      weightUnit          |-> wUnit,
      weightDisplayUnit   |-> [ unitKey |-> wDisp ],
      benchmarkPercentage |-> bPct,
      benchmarkKey        |-> bKey ]

RepeatGroup(n, steps) ==
    [ type               |-> "RepeatGroupDTO",
      numberOfIterations |-> n,
      smartRepeat        |-> FALSE,
      workoutSteps       |-> steps ]

----------------------------------------------------------------------------
(* Planning format (WorkoutStep) *)

NoStep ==
    [ stepType          |-> NoKey,
      exerciseName      |-> NoKey,
      targetType        |-> NoKey,
      targetValueOne    |-> NoNum,
      targetValueTwo    |-> NoNum,
      endCondition      |-> NoKey,
      endConditionValue |-> NoNum,
      reps              |-> NoNum,
      durationSeconds   |-> NoNum,
      distanceMeters    |-> NoNum,
      weight            |-> NoNum,
      weightPercentage  |-> NoNum,
      benchmarkKey      |-> NoKey,
      restTimeSeconds   |-> NoNum,
      numberOfRepeats   |-> NoNum,
      stepOrder         |-> NoNum ]

----------------------------------------------------------------------------
(* Step Normalizer *)

\* mutant: the end condition is not compared with the field's key
parallelFieldAlways(endCondition, endConditionValue, key) ==
    endConditionValue

\* "extract parallel fields based on endCondition type"
parallelField(endCondition, endConditionValue, key) ==
    IF endConditionValue # NoNum /\ endCondition = key THEN endConditionValue ELSE NoNum

transformSingleStep(step) ==
    LET stepType   == IF step.stepType.stepTypeKey # NoKey
                      THEN step.stepType.stepTypeKey ELSE "exercise"
        targetType == step.targetType.workoutTargetTypeKey
        hasMeaningfulTarget == targetType # NoKey /\ targetType # "no.target"
        endCondition == step.endCondition.conditionTypeKey
        hasWeight  == step.weightValue # NoNum
        fromDisplayUnit == step.weightDisplayUnit.unitKey = "percent" /\ hasWeight
        fromBenchmark   == ~fromDisplayUnit /\ step.benchmarkPercentage # NoNum
    IN  [ stepType          |-> stepType,
          exerciseName      |-> step.exerciseName,
          targetType        |-> targetType,
          targetValueOne    |-> IF step.targetValueOne # NoNum
                                   /\ (step.targetValueOne # 0 \/ hasMeaningfulTarget)
                                THEN step.targetValueOne ELSE NoNum,
          targetValueTwo    |-> IF step.targetValueTwo # NoNum
                                   /\ (step.targetValueTwo # 0 \/ hasMeaningfulTarget)
                                THEN step.targetValueTwo ELSE NoNum,
          endCondition      |-> endCondition,
          endConditionValue |-> step.endConditionValue,
          reps              |-> parallelField(endCondition, step.endConditionValue, "reps"),
          durationSeconds   |-> parallelField(endCondition, step.endConditionValue, "time"),
          distanceMeters    |-> parallelField(endCondition, step.endConditionValue, "distance"),
          weight            |-> IF hasWeight
                                THEN convertGarminWeight(step.weightValue, step.weightUnit)
                                ELSE NoNum,
          weightPercentage  |-> IF fromDisplayUnit THEN step.weightValue
                                ELSE IF fromBenchmark THEN step.benchmarkPercentage
                                ELSE NoNum,
          benchmarkKey      |-> IF fromBenchmark THEN step.benchmarkKey ELSE NoKey,
          restTimeSeconds   |-> NoNum,
          numberOfRepeats   |-> NoNum,
          stepOrder         |-> step.stepOrder ]

----------------------------------------------------------------------------
(* Tree Flattener *)

IsRepeatGroup(step) == step.type = "RepeatGroupDTO"

\* mutant: a count set by an inner group is not overwritten
RECURSIVE flattenStepsInnermost(_)
flattenStepsInnermost(steps) ==
    IF steps = <<>> THEN <<>>
    ELSE LET step == Head(steps)
             nestedSteps == flattenStepsInnermost(step.workoutSteps)
         IN  (IF IsRepeatGroup(step)
              THEN [k \in 1 .. Len(nestedSteps) |->
                       IF nestedSteps[k].numberOfRepeats # NoNum THEN nestedSteps[k]
                       ELSE [nestedSteps[k] EXCEPT !.numberOfRepeats = step.numberOfIterations]]
              ELSE <<transformSingleStep(step)>>)
             \o flattenStepsInnermost(Tail(steps))

RECURSIVE flattenSteps(_)
flattenSteps(steps) ==
    IF steps = <<>> THEN <<>>
    ELSE LET step == Head(steps)
             nestedSteps == flattenSteps(step.workoutSteps)
         IN  (IF IsRepeatGroup(step)
              THEN [k \in 1 .. Len(nestedSteps) |->
                       [nestedSteps[k] EXCEPT !.numberOfRepeats = step.numberOfIterations]]
              ELSE <<transformSingleStep(step)>>)
             \o flattenSteps(Tail(steps))

----------------------------------------------------------------------------
(* Rest Merger: one iteration of the while loop of mergeRestIntoExercises  *)
(* is one action; steps[i] of the code is flat[i + 1] here.                *)

\* the loop's test "the next step is a rest step"
restFollows(steps, idx) ==
    idx + 1 < Len(steps) /\ steps[idx + 2].stepType = "rest"

\* mutant: the duration is read from the wrong step
mergedRestTimeOfCurrent(currentStep, restStep) ==
    IF currentStep.durationSeconds # NoNum THEN currentStep.durationSeconds
    ELSE IF currentStep.endConditionValue # NoNum THEN currentStep.endConditionValue
    ELSE currentStep.restTimeSeconds

\* the value currentStep.restTimeSeconds holds after the merge branch
mergedRestTime(currentStep, restStep) ==
    IF restStep.durationSeconds # NoNum THEN restStep.durationSeconds
    ELSE IF restStep.endConditionValue # NoNum THEN restStep.endConditionValue
    ELSE currentStep.restTimeSeconds

\* mutant: the index is used without the + 1
renumberFromZero(steps) ==
    [k \in 1 .. Len(steps) |-> [steps[k] EXCEPT !.stepOrder = k - 1]]

\* third pass of transformWorkoutSteps
renumber(steps) ==
    [k \in 1 .. Len(steps) |-> [steps[k] EXCEPT !.stepOrder = (k - 1) + 1]]

\* what the while loop of mergeRestIntoExercises pushes from steps[idx] on
RECURSIVE mergeRestFrom(_, _)
mergeRestFrom(steps, idx) ==
    IF idx >= Len(steps) THEN <<>>
    ELSE IF restFollows(steps, idx)
    THEN << [steps[idx + 1] EXCEPT
                !.restTimeSeconds = mergedRestTime(steps[idx + 1], steps[idx + 2])] >>
         \o mergeRestFrom(steps, idx + 2)
    ELSE << steps[idx + 1] >> \o mergeRestFrom(steps, idx + 1)

\* the value mergeRestIntoExercises returns
mergeRestIntoExercises(steps) == mergeRestFrom(steps, 0)

\* the value transformWorkoutSteps returns
transformWorkoutSteps(steps) == renumber(mergeRestIntoExercises(flattenSteps(steps)))

----------------------------------------------------------------------------
(* Tree Rebuilder *)

\* mutant: the step order is always written as null
convertStepWithoutOrder(step) ==
    [ type                |-> "ExecutableStepDTO",
      stepOrder           |-> NoNum,
      stepType            |-> [ stepTypeId  |-> getStepTypeId(step.stepType),
                                stepTypeKey |-> step.stepType ],
      exerciseName        |-> step.exerciseName,
      targetType          |-> LET key == IF step.targetType # NoKey
                                         THEN step.targetType ELSE "no.target"
                              IN  [ workoutTargetTypeId  |-> getTargetTypeId(key),
                                    workoutTargetTypeKey |-> key ],
      targetValueOne      |-> step.targetValueOne,
      targetValueTwo      |-> step.targetValueTwo,
      endCondition        |-> IF step.endCondition # NoKey
                              THEN [ conditionTypeId  |-> getEndConditionId(step.endCondition),
                                     conditionTypeKey |-> step.endCondition ]
                              ELSE [ conditionTypeId  |-> NoNum, conditionTypeKey |-> NoKey ],
      endConditionValue   |-> step.endConditionValue,
      weightValue         |-> IF step.weight # NoNum /\ step.weight > 0
                              THEN 453 * step.weight + ((step.weight * 59237 + 50000) \div 100000)
                              ELSE NoNum,
      weightUnit          |-> IF step.weight # NoNum /\ step.weight > 0
                              THEN [unitId |-> 11, unitKey |-> "gram"] ELSE NoUnit,
      weightDisplayUnit   |-> [ unitKey |-> NoKey ],
      benchmarkPercentage |-> step.weightPercentage,
      benchmarkKey        |-> IF step.weightPercentage # NoNum
                              THEN step.benchmarkKey ELSE NoKey ]

convertStepToGarminFormat(step) ==
    [ type                |-> "ExecutableStepDTO",
      stepOrder           |-> IF step.stepOrder # NoNum /\ step.stepOrder # 0
                              THEN step.stepOrder ELSE NoNum,
      stepType            |-> [ stepTypeId  |-> getStepTypeId(step.stepType),
                                stepTypeKey |-> step.stepType ],
      exerciseName        |-> step.exerciseName,
      targetType          |-> LET key == IF step.targetType # NoKey
                                         THEN step.targetType ELSE "no.target"
                              IN  [ workoutTargetTypeId  |-> getTargetTypeId(key),
                                    workoutTargetTypeKey |-> key ],
      targetValueOne      |-> step.targetValueOne,
      targetValueTwo      |-> step.targetValueTwo,
      endCondition        |-> IF step.endCondition # NoKey
                              THEN [ conditionTypeId  |-> getEndConditionId(step.endCondition),
                                     conditionTypeKey |-> step.endCondition ]
                              ELSE [ conditionTypeId  |-> NoNum, conditionTypeKey |-> NoKey ],
      endConditionValue   |-> step.endConditionValue,
      weightValue         |-> IF step.weight # NoNum /\ step.weight > 0
                              THEN convertWeightToGrams(step.weight) ELSE NoNum,
      weightUnit          |-> IF step.weight # NoNum /\ step.weight > 0
                              THEN [unitId |-> 11, unitKey |-> "gram"] ELSE NoUnit,
      weightDisplayUnit   |-> [ unitKey |-> NoKey ],
      benchmarkPercentage |-> step.weightPercentage,
      benchmarkKey        |-> IF step.weightPercentage # NoNum
                              THEN step.benchmarkKey ELSE NoKey ]

\* mutant: the synthetic rest leaf ends on the lap button and carries no time
restStepOnLapButton(restTimeSeconds) ==
    [ type                |-> "ExecutableStepDTO",
      stepOrder           |-> NoNum,
      stepType            |-> [ stepTypeId |-> 3, stepTypeKey |-> "rest" ],
      exerciseName        |-> NoKey,
      targetType          |-> [ workoutTargetTypeId |-> 1, workoutTargetTypeKey |-> "no.target" ],
      targetValueOne      |-> NoNum,
      targetValueTwo      |-> NoNum,
      endCondition        |-> [ conditionTypeId |-> 1, conditionTypeKey |-> "lap.button" ],
      endConditionValue   |-> NoNum,
      weightValue         |-> NoNum,
      weightUnit          |-> NoUnit,
      weightDisplayUnit   |-> [ unitKey |-> NoKey ],
      benchmarkPercentage |-> NoNum,
      benchmarkKey        |-> NoKey ]

\* the synthetic rest leaf of unflattenSteps
restStepOf(restTimeSeconds) ==
    [ type                |-> "ExecutableStepDTO",
      stepOrder           |-> NoNum,
      stepType            |-> [ stepTypeId |-> 3, stepTypeKey |-> "rest" ],
      exerciseName        |-> NoKey,
      targetType          |-> [ workoutTargetTypeId |-> 1, workoutTargetTypeKey |-> "no.target" ],
      targetValueOne      |-> NoNum,
      targetValueTwo      |-> NoNum,
      endCondition        |-> [ conditionTypeId |-> 2, conditionTypeKey |-> "time" ],
      endConditionValue   |-> restTimeSeconds,
      weightValue         |-> NoNum,
      weightUnit          |-> NoUnit,
      weightDisplayUnit   |-> [ unitKey |-> NoKey ],
      benchmarkPercentage |-> NoNum,
      benchmarkKey        |-> NoKey ]

\* mutant: a rest time of 0 also counts as a merged rest
hasMergedRestOrZero(step) ==
    step.restTimeSeconds # NoNum /\ step.restTimeSeconds >= 0

\* "step has merged rest time"
hasMergedRest(step) ==
    step.restTimeSeconds # NoNum /\ step.restTimeSeconds > 0

\* mutant: a single iteration is wrapped too
wrapsWheneverPresent(numberOfRepeats) ==
    numberOfRepeats # NoNum

\* "group has numberOfRepeats"
wrapsInRepeatGroup(numberOfRepeats) ==
    numberOfRepeats # NoNum /\ numberOfRepeats > 1

\* "this step has a different numberOfRepeats"
startsNewGroup(step, currentRepeats) ==
    step.numberOfRepeats # currentRepeats

\* first loop of unflattenSteps: groupedSteps after the loop and the final push
RECURSIVE groupLoop(_, _, _, _, _)
groupLoop(steps, k, groupedSteps, currentGroup, currentRepeats) ==
    LET pushed == IF Len(currentGroup) > 0
                  THEN Append(groupedSteps, currentGroup) ELSE groupedSteps
    IN  IF k > Len(steps) THEN pushed
        ELSE IF startsNewGroup(steps[k], currentRepeats)
             THEN groupLoop(steps, k + 1, pushed, <<steps[k]>>, steps[k].numberOfRepeats)
             ELSE groupLoop(steps, k + 1, groupedSteps, Append(currentGroup, steps[k]), currentRepeats)

groupSteps(steps) == groupLoop(steps, 1, <<>>, <<>>, NoNum)

\* inner loop of unflattenSteps: garminSteps of one group
RECURSIVE garminStepsOf(_)
garminStepsOf(group) ==
    IF group = <<>> THEN <<>>
    ELSE LET step == Head(group)
         IN  <<convertStepToGarminFormat(step)>>
             \o (IF hasMergedRest(step) THEN <<restStepOf(step.restTimeSeconds)>> ELSE <<>>)
             \o garminStepsOf(Tail(group))

\* what one group contributes to `unflattened`
emitGroup(group) ==
    LET numberOfRepeats == group[1].numberOfRepeats
    IN  IF wrapsInRepeatGroup(numberOfRepeats)
        THEN <<RepeatGroup(numberOfRepeats, garminStepsOf(group))>>
        ELSE garminStepsOf(group)

RECURSIVE emitGroups(_)
emitGroups(groupedSteps) ==
    IF groupedSteps = <<>> THEN <<>>
    ELSE emitGroup(Head(groupedSteps)) \o emitGroups(Tail(groupedSteps))

unflattenSteps(steps) == emitGroups(groupSteps(steps))

----------------------------------------------------------------------------
(* Inputs of the export pipeline: wire step trees with at most MaxNodes    *)
(* nodes, the repeat-groups nested or not.                                 *)

Iterations == {2, 3}

ExerciseLeaf ==
    WireLeaf("exercise", 5, "BARBELL_BENCH_PRESS", "no.target", NoNum, NoNum,
             "reps", 10, NoNum, NoUnit, NoKey, NoNum, NoKey)

RestLeaf(order, ecKey, ecVal) ==
    WireLeaf("rest", order, NoKey, "no.target", NoNum, NoNum,
             ecKey, ecVal, NoNum, NoUnit, NoKey, NoNum, NoKey)

WireLeaves ==
    { ExerciseLeaf,
      RestLeaf(NoNum, "time", 30),
      RestLeaf(2, "time", 60),
      RestLeaf(9, "lap.button", NoNum),
      RestLeaf(5, "lap.button", 45) }

\* forests with exactly n leaves and exactly g groups; a group is not empty
RECURSIVE Forests(_, _)
Forests(n, g) ==
    IF n = 0 THEN (IF g = 0 THEN {<<>>} ELSE {})
    ELSE { <<l>> \o r : l \in WireLeaves, r \in Forests(n - 1, g) }
         \cup UNION { UNION { { <<RepeatGroup(it, inner)>> \o r :
                                  it \in Iterations,
                                  inner \in Forests(a, b),
                                  r \in Forests(n - a, g - 1 - b) } :
                              b \in 0 .. (g - 1) } :
                      a \in 1 .. n }

----------------------------------------------------------------------------
(* Export pipeline: transformWorkoutSteps, then the rebuild of its result  *)

\* no fetch is in progress
FetchIdle ==
    /\ includeDetails = FALSE
    /\ fetched = <<>>
    /\ fetchIndex = 0
    /\ rawWorkouts = <<>>
    /\ detailedWorkouts = <<>>
    /\ fpc = "idle"

\* no upload is in progress
UploadIdle ==
    /\ workouts = <<>>
    /\ dryRun = FALSE
    /\ upc = "idle"
    /\ uploadIndex = 0
    /\ errors = <<>>
    /\ successful = 0
    /\ failed = 0
    /\ failedWorkouts = <<>>
    /\ outcome = "running"
    /\ trace = <<>>

Init ==
    /\ FetchIdle
    /\ \E n \in 0 .. MaxNodes : \E g \in 0 .. (MaxNodes - n) : wire \in Forests(n, g)
    /\ flat = <<>>
    /\ i = 0
    /\ merged = <<>>
    /\ emittedAt = <<>>
    /\ plan = <<>>
    /\ rebuilt = <<>>
    /\ pc = "start"
    /\ UploadIdle

\* mutant: the repeat-groups are skipped instead of expanded
FlattenLeavesOnly ==
    /\ pc = "start"
    /\ flat' = flattenSteps(SelectSeq(wire, LAMBDA step : ~IsRepeatGroup(step)))
    /\ merged' = <<>>
    /\ emittedAt' = <<>>
    /\ i' = 0
    /\ pc' = "merge"
    /\ UNCHANGED <<wire, plan, rebuilt, uploadVars, fetchVars>>

\* first pass of transformWorkoutSteps, and the entry of mergeRestIntoExercises
Flatten ==
    /\ pc = "start"
    /\ flat' = flattenSteps(wire)
    /\ merged' = <<>>
    /\ emittedAt' = <<>>
    /\ i' = 0
    /\ pc' = "merge"
    /\ UNCHANGED <<wire, plan, rebuilt, uploadVars, fetchVars>>

\* loop iteration, branch "next step is a rest step"
MergeRest ==
    /\ pc = "merge"
    /\ i < Len(flat)
    /\ restFollows(flat, i)
    /\ LET currentStep == [flat[i + 1] EXCEPT
                              !.restTimeSeconds = mergedRestTime(flat[i + 1], flat[i + 2])]
       IN  /\ flat' = [flat EXCEPT ![i + 1] = currentStep]
           /\ merged' = Append(merged, currentStep)
    /\ emittedAt' = Append(emittedAt, i)
    /\ i' = i + 2
    /\ UNCHANGED <<wire, plan, rebuilt, pc, uploadVars, fetchVars>>

\* loop iteration, branch "no rest to merge"
MergeKeep ==
    /\ pc = "merge"
    /\ i < Len(flat)
    /\ ~restFollows(flat, i)
    /\ merged' = Append(merged, flat[i + 1])
    /\ emittedAt' = Append(emittedAt, i)
    /\ i' = i + 1
    /\ UNCHANGED <<wire, flat, plan, rebuilt, pc, uploadVars, fetchVars>>

\* loop exit, third pass and return of transformWorkoutSteps
Renumber ==
    /\ pc = "merge"
    /\ i >= Len(flat)
    /\ plan' = renumber(merged)
    /\ pc' = "plan"
    /\ UNCHANGED <<wire, flat, i, merged, emittedAt, rebuilt, uploadVars, fetchVars>>

\* unflattenSteps on the plan (buildGarminWorkoutDetail)
Unflatten ==
    /\ pc = "plan"
    /\ rebuilt' = unflattenSteps(plan)
    /\ pc' = "rebuilt"
    /\ UNCHANGED <<wire, flat, i, merged, emittedAt, plan, uploadVars, fetchVars>>

Next ==
    \/ Flatten
    \/ MergeRest
    \/ MergeKeep
    \/ Renumber
    \/ Unflatten

Spec == Init /\ [][Next]_vars

----------------------------------------------------------------------------
(* Import direction: a plan step sequence read from a plan file is rebuilt *)

MaxPlanLen == 3     \* steps in a plan step sequence

RestTimes == {NoNum, 0, 45}
Repeats   == {NoNum, 1, 2, 3}
Orders    == {NoNum, 0, 1}

PlanStepOf(rest, repeats, order) ==
    [NoStep EXCEPT !.stepType = "exercise",
                   !.exerciseName = "BARBELL_BENCH_PRESS",
                   !.targetType = "no.target",
                   !.endCondition = "reps",
                   !.endConditionValue = 10,
                   !.reps = 10,
                   !.restTimeSeconds = rest,
                   !.numberOfRepeats = repeats,
                   !.stepOrder = order]

PlanSteps ==
    { PlanStepOf(r, n, 1) : r \in RestTimes, n \in Repeats }
    \cup { PlanStepOf(NoNum, NoNum, o) : o \in Orders }

SeqsUpTo(S, n) == UNION { [1 .. m -> S] : m \in 0 .. n }

PlanInputs == SeqsUpTo(PlanSteps, MaxPlanLen)

InitRebuild ==
    /\ FetchIdle
    /\ plan \in PlanInputs
    /\ wire = <<>>
    /\ flat = <<>>
    /\ i = 0
    /\ merged = <<>>
    /\ emittedAt = <<>>
    /\ rebuilt = <<>>
    /\ pc = "plan"
    /\ UploadIdle

NextRebuild == Unflatten

SpecRebuild == InitRebuild /\ [][NextRebuild]_vars

----------------------------------------------------------------------------
(* Step Normalizer alone: one wire leaf is normalised                      *)

EndConditionKeys   == {NoKey, "reps", "time", "distance", "lap.button", "calories"}
EndConditionValues == {NoNum, 0, 12}
WeightValues       == {NoNum, 0, 75, 45359}
WeightUnits        == {NoUnit, [unitId |-> 8, unitKey |-> "kilogram"],
                               [unitId |-> 9, unitKey |-> "pound"]}
DisplayUnits       == {NoKey, "percent"}
BenchmarkPercentages == {NoNum, 80}
BenchmarkKeys      == {NoKey, "BARBELL_BENCH_PRESS"}
TargetTypeKeys     == {NoKey, "no.target", "pace.zone"}

MaxWeightValue == 2000      \* the weightValue sweep is 0 .. MaxWeightValue

\* the combinations of the optional fields, and a sweep of weightValue (and
\* the 225 lb of the tests) under each unit
StepInputs ==
    { WireLeaf("exercise", 1, "BARBELL_BENCH_PRESS", ttKey, 0, NoNum,
               ecKey, ecVal, wVal, wUnit, wDisp, bPct, bKey) :
        ttKey \in TargetTypeKeys, ecKey \in EndConditionKeys, ecVal \in EndConditionValues,
        wVal \in WeightValues, wUnit \in WeightUnits, wDisp \in DisplayUnits,
        bPct \in BenchmarkPercentages, bKey \in BenchmarkKeys }
    \cup { WireLeaf("exercise", 1, "BARBELL_BENCH_PRESS", "no.target", NoNum, NoNum,
                    "reps", 10, wVal, wUnit, NoKey, NoNum, NoKey) :
             wVal \in (0 .. MaxWeightValue) \cup {102058, 102261}, wUnit \in WeightUnits }

InitStep ==
    /\ FetchIdle
    /\ wire \in { <<leaf>> : leaf \in StepInputs }
    /\ flat = <<>>
    /\ i = 0
    /\ merged = <<>>
    /\ emittedAt = <<>>
    /\ plan = <<>>
    /\ rebuilt = <<>>
    /\ pc = "step"
    /\ UploadIdle

Normalize ==
    /\ pc = "step"
    /\ plan' = <<transformSingleStep(wire[1])>>
    /\ pc' = "normalized"
    /\ UNCHANGED <<wire, flat, i, merged, emittedAt, rebuilt, uploadVars, fetchVars>>

NextStep == Normalize

SpecStep == InitStep /\ [][NextStep]_vars

----------------------------------------------------------------------------
(* Validator.  The checks are made in the order of the code; the result is *)
(* the rule of the Error thrown, "ok" when nothing is thrown.  An absent   *)
(* field (undefined) is NoNum or NoKey; the typeof checks cannot fail on   *)
(* the numeric fields of the model and are left out.                       *)

VALID_STEP_TYPES ==
    {"warmup", "cooldown", "interval", "recovery", "rest", "exercise", "repeat", "other"}

VALID_END_CONDITIONS ==
    {"reps", "time", "distance", "lap.button", "iterations", "calories", "heart.rate"}

VALID_TARGET_TYPES ==
    {"no.target", "heart.rate.zone", "pace.zone", "speed.zone", "power.zone",
     "cadence.zone", "open"}

isValidStepType(value) == value \in VALID_STEP_TYPES

isValidEndCondition(value) == value \in VALID_END_CONDITIONS

isValidTargetType(value) == value \in VALID_TARGET_TYPES

\* Required: stepType
stepTypeRule(step) ==
    IF step.stepType = NoKey THEN "stepType.missing"
    ELSE IF ~isValidStepType(step.stepType) THEN "stepType.invalid"
    ELSE "ok"

\* Required: endCondition (for most step types), and its value
endConditionRule(step) ==
    IF step.endCondition = NoKey /\ step.stepType # "rest" THEN "endCondition.missing"
    ELSE IF step.endCondition # NoKey /\ ~isValidEndCondition(step.endCondition)
         THEN "endCondition.invalid"
    ELSE IF step.endCondition # NoKey /\ step.endConditionValue = NoNum
         THEN "endConditionValue.missing"
    ELSE IF step.endConditionValue # NoNum /\ step.endConditionValue <= 0
         THEN "endConditionValue.notPositive"
    ELSE "ok"

\* mutant: a rest step needs no targetType, as it needs no endCondition
targetTypeRuleRestExempt(step) ==
    IF step.targetType = NoKey /\ step.stepType # "rest" THEN "targetType.missing"
    ELSE IF step.targetType # NoKey /\ ~isValidTargetType(step.targetType)
         THEN "targetType.invalid"
    ELSE "ok"

\* Required: targetType
targetTypeRule(step) ==
    IF step.targetType = NoKey THEN "targetType.missing"
    ELSE IF ~isValidTargetType(step.targetType) THEN "targetType.invalid"
    ELSE "ok"

\* Weight validation
weightRule(step) ==
    IF step.weight # NoNum /\ step.weight < 0 THEN "weight.negative"
    ELSE IF step.weight # NoNum /\ step.weight > 1000 THEN "weight.tooHigh"
    ELSE "ok"

\* mutant: the bounds of the interval are swapped, [0, 200)
weightPercentageRuleClosedAtZero(step) ==
    IF step.weightPercentage # NoNum
       /\ (step.weightPercentage < 0 \/ step.weightPercentage >= 200)
    THEN "weightPercentage.range"
    ELSE IF step.weightPercentage # NoNum /\ step.benchmarkKey = NoKey
         THEN "benchmarkKey.missing"
    ELSE "ok"

\* Weight percentage validation
weightPercentageRule(step) ==
    IF step.weightPercentage # NoNum
       /\ (step.weightPercentage <= 0 \/ step.weightPercentage > 200)
    THEN "weightPercentage.range"
    ELSE IF step.weightPercentage # NoNum /\ step.benchmarkKey = NoKey
         THEN "benchmarkKey.missing"
    ELSE "ok"

\* Reps, duration, distance, rest time and number of repeats validation
repsRule(step) ==
    IF step.reps # NoNum /\ step.reps <= 0 THEN "reps.notPositive" ELSE "ok"

durationSecondsRule(step) ==
    IF step.durationSeconds # NoNum /\ step.durationSeconds <= 0
    THEN "durationSeconds.notPositive" ELSE "ok"

distanceMetersRule(step) ==
    IF step.distanceMeters # NoNum /\ step.distanceMeters <= 0
    THEN "distanceMeters.notPositive" ELSE "ok"

restTimeSecondsRule(step) ==
    IF step.restTimeSeconds # NoNum /\ step.restTimeSeconds < 0
    THEN "restTimeSeconds.negative" ELSE "ok"

numberOfRepeatsRule(step) ==
    IF step.numberOfRepeats # NoNum /\ step.numberOfRepeats <= 0
    THEN "numberOfRepeats.notPositive" ELSE "ok"

\* mutant: only the reps field is compared with endConditionValue
crossFieldRuleRepsOnly(step) ==
    IF step.endCondition = "reps" /\ step.reps # NoNum
       /\ step.reps # step.endConditionValue
    THEN "reps.mismatch"
    ELSE "ok"

\* Field interdependency
crossFieldRule(step) ==
    IF step.endCondition = "reps" /\ step.reps # NoNum
       /\ step.reps # step.endConditionValue
    THEN "reps.mismatch"
    ELSE IF step.endCondition = "time" /\ step.durationSeconds # NoNum
            /\ step.durationSeconds # step.endConditionValue
         THEN "durationSeconds.mismatch"
    ELSE IF step.endCondition = "distance" /\ step.distanceMeters # NoNum
            /\ step.distanceMeters # step.endConditionValue
         THEN "distanceMeters.mismatch"
    ELSE "ok"

\* the first throw reached when the checks are made in the order of checks
RECURSIVE firstThrown(_)
firstThrown(checks) ==
    IF checks = <<>> THEN "ok"
    ELSE IF Head(checks) # "ok" THEN Head(checks)
    ELSE firstThrown(Tail(checks))

\* mutant: the weight checks are made before the required fields
validateWorkoutStepWeightFirst(step) ==
    firstThrown(<< weightRule(step), weightPercentageRule(step),
                   stepTypeRule(step), endConditionRule(step), targetTypeRule(step),
                   repsRule(step), durationSecondsRule(step), distanceMetersRule(step),
                   restTimeSecondsRule(step), numberOfRepeatsRule(step),
                   crossFieldRule(step) >>)

validateWorkoutStep(step) ==
    firstThrown(<< stepTypeRule(step), endConditionRule(step), targetTypeRule(step),
                   weightRule(step), weightPercentageRule(step),
                   repsRule(step), durationSecondsRule(step), distanceMetersRule(step),
                   restTimeSecondsRule(step), numberOfRepeatsRule(step),
                   crossFieldRule(step) >>)

\* the Error validateWorkout throws: step is the 1-based index and name the
\* workout name its message carries (0 and none for the error of a workout
\* without name), rule "ok" when it returns.  A workout without steps array
\* is a record without the field steps.
validateWorkout(workout) ==
    IF workout.workoutName = NoKey
    THEN [step |-> 0, rule |-> "workoutName.missing", name |-> NoKey]
    ELSE IF "steps" \notin DOMAIN workout
    THEN [step |-> 0, rule |-> "steps.missing", name |-> workout.workoutName]
    ELSE LET offending == { s \in 1 .. Len(workout.steps) :
                              validateWorkoutStep(workout.steps[s]) # "ok" }
         IN  IF offending = {} THEN [step |-> 0, rule |-> "ok", name |-> NoKey]
             ELSE LET first == CHOOSE s \in offending : \A t \in offending : s <= t
                  IN  [step |-> first, rule |-> validateWorkoutStep(workout.steps[first]),
                       name |-> workout.workoutName]

\* errors.push(`Workout ${index + 1}: ${error.message}`), for the workouts from k on
RECURSIVE validateWorkoutsFrom(_, _)
validateWorkoutsFrom(list, k) ==
    IF k > Len(list) THEN <<>>
    ELSE LET error == validateWorkout(list[k])
         IN  (IF error.rule = "ok" THEN <<>>
              ELSE << [workout |-> k, step |-> error.step, rule |-> error.rule,
                       name |-> error.name] >>)
             \o validateWorkoutsFrom(list, k + 1)

validateWorkoutsForUpload(list) == validateWorkoutsFrom(list, 1)

----------------------------------------------------------------------------
(* Upload: uploadWorkoutsFromFile and the uploadWorkout calls it makes.    *)
(* An await of a remote call is one action; whether the remote call        *)
(* succeeds, and whether the client has the method, is not decided by the  *)
(* program.  uploadIndex is the i of the code; workouts[i] of the code is  *)
(* workouts[uploadIndex + 1] here.                                         *)

MaxWorkouts     == 2    \* workouts in an upload file
MaxWorkoutSteps == 2    \* steps in a workout of an upload file

GoodStep ==
    [ NoStep EXCEPT !.stepType = "exercise", !.exerciseName = "BARBELL_BENCH_PRESS",
                    !.targetType = "no.target", !.endCondition = "reps",
                    !.endConditionValue = 10, !.reps = 10, !.stepOrder = 1 ]

\* no targetType
BadStep == [ GoodStep EXCEPT !.targetType = NoKey ]

WorkoutOf(name, id, steps) ==
    [ workoutName |-> name, workoutId |-> id, steps |-> steps ]

\* workouts with an id and any steps, one valid workout without id, and one
\* workout without name
WorkoutInputs ==
    { WorkoutOf("Push Day", 7, steps) : steps \in SeqsUpTo({GoodStep, BadStep}, MaxWorkoutSteps) }
    \cup { WorkoutOf("Pull Day", NoNum, <<GoodStep>>), WorkoutOf(NoKey, 9, <<>>) }

Event(op, ok) == [ op |-> op, w |-> uploadIndex + 1, ok |-> ok ]

\* the workoutSteps of the one segment of the workout detail
buildGarminWorkoutDetail(workout) ==
    IF "steps" \in DOMAIN workout THEN unflattenSteps(workout.steps) ELSE <<>>

InitUpload ==
    /\ FetchIdle
    /\ wire = <<>>
    /\ flat = <<>>
    /\ i = 0
    /\ merged = <<>>
    /\ emittedAt = <<>>
    /\ plan = <<>>
    /\ rebuilt = <<>>
    /\ pc = "upload"
    /\ workouts \in SeqsUpTo(WorkoutInputs, MaxWorkouts)
    /\ dryRun \in BOOLEAN
    /\ upc = IF dryRun THEN "dryrun" ELSE "loop"
    /\ uploadIndex = 0
    /\ errors = <<>>
    /\ successful = 0
    /\ failed = 0
    /\ failedWorkouts = <<>>
    /\ outcome = "running"
    /\ trace = <<>>

\* mutant: the errors are collected and the preview is made all the same
DryRunValidateThenPreview ==
    /\ upc = "dryrun"
    /\ errors' = validateWorkoutsForUpload(workouts)
    /\ upc' = "preview"
    /\ UNCHANGED <<fetchVars, codecVars, workouts, dryRun, uploadIndex, successful, failed,
                   failedWorkouts, outcome, trace>>

\* dry run: validateWorkoutsForUpload, and the throw when it found errors
DryRunValidate ==
    /\ upc = "dryrun"
    /\ errors' = validateWorkoutsForUpload(workouts)
    /\ IF errors' # <<>>
       THEN upc' = "done" /\ outcome' = "thrown"
       ELSE upc' = "preview" /\ outcome' = outcome
    /\ UNCHANGED <<fetchVars, codecVars, workouts, dryRun, uploadIndex, successful, failed,
                   failedWorkouts, trace>>

\* dry run: uploadWorkout(workouts[i], true), its return value dropped
DryRunPreview ==
    /\ upc = "preview"
    /\ uploadIndex < Len(workouts)
    /\ LET valid == validateWorkout(workouts[uploadIndex + 1]).rule = "ok"
       IN  trace' = trace \o <<Event("validate", valid), Event("return", valid)>>
    /\ uploadIndex' = uploadIndex + 1
    /\ UNCHANGED <<fetchVars, codecVars, workouts, dryRun, upc, errors, successful, failed,
                   failedWorkouts, outcome>>

DryRunReturn ==
    /\ upc = "preview"
    /\ uploadIndex >= Len(workouts)
    /\ successful' = Len(workouts)
    /\ failed' = 0
    /\ failedWorkouts' = <<>>
    /\ outcome' = "returned"
    /\ upc' = "done"
    /\ UNCHANGED <<fetchVars, codecVars, workouts, dryRun, uploadIndex, errors, trace>>

\* uploadWorkout returns to the loop of uploadWorkoutsFromFile; events are
\* the last events of the call
ReturnToLoop(success, events) ==
    /\ trace' = trace \o events \o <<Event("return", success)>>
    /\ successful' = IF success THEN successful + 1 ELSE successful
    /\ failed' = IF success THEN failed ELSE failed + 1
    /\ failedWorkouts' = IF success THEN failedWorkouts
                         ELSE Append(failedWorkouts, workouts[uploadIndex + 1].workoutName)
    /\ IF uploadIndex < Len(workouts) - 1
       THEN upc' = "wait" /\ uploadIndex' = uploadIndex
       ELSE upc' = "loop" /\ uploadIndex' = uploadIndex + 1

\* mutant: an invalid workout is reported and the upload goes on
UploadValidateLenient ==
    /\ upc = "loop"
    /\ uploadIndex < Len(workouts)
    /\ trace' = Append(trace, Event("validate",
                                    validateWorkout(workouts[uploadIndex + 1]).rule = "ok"))
    /\ upc' = "auth"
    /\ UNCHANGED <<uploadIndex, successful, failed, failedWorkouts>>
    /\ UNCHANGED <<fetchVars, codecVars, workouts, dryRun, errors, outcome>>

\* uploadWorkout(workout, false) up to the end of its validation
UploadValidate ==
    /\ upc = "loop"
    /\ uploadIndex < Len(workouts)
    /\ IF validateWorkout(workouts[uploadIndex + 1]).rule = "ok"
       THEN /\ trace' = Append(trace, Event("validate", TRUE))
            /\ upc' = "auth"
            /\ UNCHANGED <<uploadIndex, successful, failed, failedWorkouts>>
       ELSE ReturnToLoop(FALSE, <<Event("validate", FALSE)>>)
    /\ UNCHANGED <<fetchVars, codecVars, workouts, dryRun, errors, outcome>>

\* mutant: the delete is attempted whether or not the workout has an id
AuthenticateThenDelete ==
    /\ upc = "auth"
    /\ \E authenticated \in BOOLEAN :
          /\ trace' = Append(trace, Event("auth", authenticated))
          /\ IF authenticated
             THEN upc' = "delete" /\ outcome' = outcome
             ELSE upc' = "done" /\ outcome' = "thrown"
    /\ UNCHANGED <<fetchVars, codecVars, workouts, dryRun, uploadIndex, errors, successful, failed,
                   failedWorkouts>>

\* await ensureAuthenticated(); the throw of a failed authentication is not
\* caught by uploadWorkoutsFromFile
Authenticate ==
    /\ upc = "auth"
    /\ \E authenticated \in BOOLEAN :
          /\ trace' = Append(trace, Event("auth", authenticated))
          /\ IF authenticated
             THEN /\ upc' = IF workouts[uploadIndex + 1].workoutId # NoNum
                            THEN "delete" ELSE "create"
                  /\ outcome' = outcome
             ELSE upc' = "done" /\ outcome' = "thrown"
    /\ UNCHANGED <<fetchVars, codecVars, workouts, dryRun, uploadIndex, errors, successful, failed,
                   failedWorkouts>>

\* the workout has an id: await client.deleteWorkout, when the client has it
DeleteExisting ==
    /\ upc = "delete"
    /\ \/ /\ upc' = "create"        \* client.deleteWorkout is missing
          /\ UNCHANGED <<trace, uploadIndex, successful, failed, failedWorkouts>>
       \/ /\ upc' = "create"
          /\ trace' = Append(trace, Event("delete", TRUE))
          /\ UNCHANGED <<uploadIndex, successful, failed, failedWorkouts>>
       \/ ReturnToLoop(FALSE, <<Event("delete", FALSE)>>)
    /\ UNCHANGED <<fetchVars, codecVars, workouts, dryRun, errors, outcome>>

\* buildGarminWorkoutDetail, then await client.createWorkout, when the
\* client has it
CreateWorkout ==
    /\ upc = "create"
    /\ rebuilt' = buildGarminWorkoutDetail(workouts[uploadIndex + 1])
    /\ \/ ReturnToLoop(FALSE, <<>>)      \* client.createWorkout is missing
       \/ ReturnToLoop(TRUE, <<Event("create", TRUE)>>)
       \/ ReturnToLoop(FALSE, <<Event("create", FALSE)>>)
    /\ UNCHANGED <<fetchVars, wire, flat, i, merged, emittedAt, plan, pc, workouts, dryRun, errors,
                   outcome>>

\* the one-second pause between two uploads
RateLimitWait ==
    /\ upc = "wait"
    /\ upc' = "loop"
    /\ uploadIndex' = uploadIndex + 1
    /\ UNCHANGED <<fetchVars, codecVars, workouts, dryRun, errors, successful, failed,
                   failedWorkouts, outcome, trace>>

UploadReturn ==
    /\ upc = "loop"
    /\ uploadIndex >= Len(workouts)
    /\ outcome' = "returned"
    /\ upc' = "done"
    /\ UNCHANGED <<fetchVars, codecVars, workouts, dryRun, uploadIndex, errors, successful, failed,
                   failedWorkouts, trace>>

NextUpload ==
    \/ DryRunValidate
    \/ DryRunPreview
    \/ DryRunReturn
    \/ UploadValidate
    \/ Authenticate
    \/ DeleteExisting
    \/ CreateWorkout
    \/ RateLimitWait
    \/ UploadReturn

SpecUpload == InitUpload /\ [][NextUpload]_vars

----------------------------------------------------------------------------
(* Leaf conversion alone: a plan sequence of one step is rebuilt.  The     *)
(* inputs sweep the weights the Validator lets through and the enum keys,  *)
(* the listed ones and one no table lists.                                 *)

MaxWeight == 1000

Weights == {NoNum} \cup (0 .. MaxWeight)

StepTypeKeys ==
    {"warmup", "cooldown", "interval", "recovery", "rest", "exercise", "repeat", "other",
     "stretch", "constructor"}

ConditionKeys ==
    {NoKey, "reps", "time", "distance", "lap.button", "iterations", "calories",
     "heart.rate", "power", "toString"}

TargetKeys ==
    {NoKey, "no.target", "heart.rate.zone", "pace.zone", "speed.zone", "power.zone",
     "cadence.zone", "open", "grade", "valueOf"}

LeafInputs ==
    { [PlanStepOf(NoNum, NoNum, 1) EXCEPT !.weight = w] : w \in Weights }
    \cup { [PlanStepOf(NoNum, NoNum, 1) EXCEPT !.weight = 225, !.weightPercentage = p,
                                               !.benchmarkKey = b] :
             p \in {NoNum, 75}, b \in {NoKey, "BARBELL_BENCH_PRESS"} }
    \cup { [PlanStepOf(NoNum, NoNum, 1) EXCEPT !.stepType = st, !.endCondition = ec,
                                               !.targetType = tt, !.reps = NoNum] :
             st \in StepTypeKeys, ec \in ConditionKeys, tt \in TargetKeys }

InitLeaf ==
    /\ FetchIdle
    /\ plan \in { <<step>> : step \in LeafInputs }
    /\ wire = <<>>
    /\ flat = <<>>
    /\ i = 0
    /\ merged = <<>>
    /\ emittedAt = <<>>
    /\ rebuilt = <<>>
    /\ pc = "plan"
    /\ UploadIdle

NextLeaf == Unflatten

SpecLeaf == InitLeaf /\ [][NextLeaf]_vars

----------------------------------------------------------------------------
(* Rebuild, then export again: the steps of a workout of a plan file that  *)
(* passes the Validator are rebuilt, and the rebuilt steps, fetched back   *)
(* as the workout's wire steps, go through transformWorkoutSteps.          *)
(* workouts[1].steps keeps the sequence the run started from.              *)

MaxReimportLen == 2     \* steps in the workout

ReimportWeights == {NoNum, 0, 225}

RestStep(ecKey, seconds) ==
    [NoStep EXCEPT !.stepType = "rest", !.targetType = "no.target",
                   !.endCondition = ecKey, !.endConditionValue = seconds,
                   !.durationSeconds = seconds, !.stepOrder = 1]

ReimportSteps ==
    { [PlanStepOf(r, n, 1) EXCEPT !.weight = w] :
        r \in RestTimes, n \in Repeats, w \in ReimportWeights }
    \cup { RestStep("time", 30), RestStep(NoKey, NoNum) }

\* the workouts of up to n steps that pass the Validator
ReimportInputs(n) ==
    { w \in { WorkoutOf("Chest Day", NoNum, steps) :
                steps \in SeqsUpTo(ReimportSteps, n) } :
        validateWorkout(w).rule = "ok" }

InitReimport ==
    /\ FetchIdle
    /\ workouts \in { <<w>> : w \in ReimportInputs(MaxReimportLen) }
    /\ plan = workouts[1].steps
    /\ wire = <<>>
    /\ flat = <<>>
    /\ i = 0
    /\ merged = <<>>
    /\ emittedAt = <<>>
    /\ rebuilt = <<>>
    /\ pc = "plan"
    /\ dryRun = FALSE
    /\ upc = "idle"
    /\ uploadIndex = 0
    /\ errors = <<>>
    /\ successful = 0
    /\ failed = 0
    /\ failedWorkouts = <<>>
    /\ outcome = "running"
    /\ trace = <<>>

\* the rebuilt steps come back as segment.workoutSteps of the fetched workout
Reimport ==
    /\ pc = "rebuilt"
    /\ wire = <<>>
    /\ rebuilt # <<>>
    /\ wire' = rebuilt
    /\ pc' = "start"
    /\ UNCHANGED <<flat, i, merged, emittedAt, plan, rebuilt, uploadVars, fetchVars>>

NextReimport ==
    \/ Unflatten
    \/ Reimport
    \/ Flatten
    \/ MergeRest
    \/ MergeKeep
    \/ Renumber

SpecReimport == InitReimport /\ [][NextReimport]_vars

----------------------------------------------------------------------------
(* Validator alone: validateWorkoutsForUpload on a file of one workout     *)
(* whose last step differs from a valid step in up to MaxDeviations fields *)

MaxDeviations == 2

\* valid steps that end on reps, on time and on distance
BaseSteps ==
    { GoodStep,
      [GoodStep EXCEPT !.endCondition = "time", !.reps = NoNum, !.durationSeconds = 10],
      [GoodStep EXCEPT !.endCondition = "distance", !.reps = NoNum,
                       !.distanceMeters = 10] }

\* the steps that differ from step in one field
Deviate(step) ==
    { [step EXCEPT !.stepType = v] : v \in {NoKey, "stretch", "rest"} }
    \cup { [step EXCEPT !.endCondition = v] : v \in {NoKey, "power", "time", "distance"} }
    \cup { [step EXCEPT !.endConditionValue = v] : v \in {NoNum, 0, 8} }
    \cup { [step EXCEPT !.targetType = v] : v \in {NoKey, "grade", "open"} }
    \cup { [step EXCEPT !.weight = v] : v \in {0 - 1, 0, 1000, 1001} }
    \cup { [step EXCEPT !.weightPercentage = v] : v \in {0, 75, 200, 250} }
    \cup { [step EXCEPT !.benchmarkKey = v] : v \in {"BARBELL_BENCH_PRESS"} }
    \cup { [step EXCEPT !.reps = v] : v \in {NoNum, 0, 8} }
    \cup { [step EXCEPT !.durationSeconds = v] : v \in {0, 8, 10} }
    \cup { [step EXCEPT !.distanceMeters = v] : v \in {0, 8, 10} }
    \cup { [step EXCEPT !.restTimeSeconds = v] : v \in {0 - 5, 0, 45} }
    \cup { [step EXCEPT !.numberOfRepeats = v] : v \in {0, 3} }

RECURSIVE Deviations(_)
Deviations(n) ==
    IF n = 0 THEN BaseSteps
    ELSE LET fewer == Deviations(n - 1)
         IN  fewer \cup UNION { Deviate(step) : step \in fewer }

\* the workouts whose last step has up to n deviations
ValidatorInputs(n) ==
    { WorkoutOf("Chest Day", NoNum, before \o <<step>>) :
        before \in {<<>>, <<GoodStep>>}, step \in Deviations(n) }

InitValidate ==
    /\ FetchIdle
    /\ wire = <<>>
    /\ flat = <<>>
    /\ i = 0
    /\ merged = <<>>
    /\ emittedAt = <<>>
    /\ plan = <<>>
    /\ rebuilt = <<>>
    /\ pc = "upload"
    /\ workouts \in { <<w>> : w \in ValidatorInputs(MaxDeviations) }
    /\ dryRun = TRUE
    /\ upc = "dryrun"
    /\ uploadIndex = 0
    /\ errors = <<>>
    /\ successful = 0
    /\ failed = 0
    /\ failedWorkouts = <<>>
    /\ outcome = "running"
    /\ trace = <<>>

NextValidate == DryRunValidate

SpecValidate == InitValidate /\ [][NextValidate]_vars

----------------------------------------------------------------------------
(* Export of one workout: transformSingleWorkout on a wire workout of one   *)
(* segment, then the exported workout is validated and rebuilt as an upload *)
(* of the export file would.  The leaves are well formed: a step type, an   *)
(* end condition and a positive end-condition value; the target type may be *)
(* missing.                                                                  *)

MaxExportNodes == 2     \* leaves of the wire workout

ExportStepTypes     == {"exercise", "rest"}
ExportEndConditions == {"reps", "time", "lap.button"}
ExportValues        == {30}
ExportTargetTypes   == {NoKey, "no.target"}
WorkoutNames        == {NoKey, "Leg Day"}

ExportLeaves ==
    { WireLeaf(st, 1, IF st = "exercise" THEN "BARBELL_BENCH_PRESS" ELSE NoKey, tt,
               NoNum, NoNum, ec, v, NoNum, NoUnit, NoKey, NoNum, NoKey) :
        st \in ExportStepTypes, tt \in ExportTargetTypes,
        ec \in ExportEndConditions, v \in ExportValues }

\* step sequences of n leaves, a run of them in one repeat-group or none
ExportInputs(n) ==
    [1 .. n -> ExportLeaves]
    \cup UNION { UNION { { before \o <<RepeatGroup(it, inner)>> \o after :
                             it \in Iterations,
                             before \in [1 .. count -> ExportLeaves],
                             inner \in [1 .. size -> ExportLeaves],
                             after \in [1 .. (n - count - size) -> ExportLeaves] } :
                         size \in 1 .. (n - count) } :
                 count \in 0 .. (n - 1) }

\* the object transformSingleWorkout returns: steps is undefined when no
\* step was collected
DetailedWorkoutOf(workoutId, workoutName, steps) ==
    LET name == IF workoutName # NoKey THEN workoutName ELSE "Unnamed Workout"
    IN  IF Len(steps) > 0
        THEN [ workoutName |-> name, workoutId |-> workoutId, steps |-> steps ]
        ELSE [ workoutName |-> name, workoutId |-> workoutId ]

InitExport ==
    /\ FetchIdle
    /\ \E n \in 0 .. MaxExportNodes : wire \in ExportInputs(n)
    /\ flat = <<>>
    /\ i = 0
    /\ merged = <<>>
    /\ emittedAt = <<>>
    /\ plan = <<>>
    /\ rebuilt = <<>>
    /\ pc = "start"
    /\ UploadIdle

\* mutant: the steps are moved out of the array the transformation returned
ExportWorkoutTakingSteps ==
    /\ pc = "plan"
    /\ \E workoutName \in WorkoutNames :
          workouts' = << DetailedWorkoutOf(7, workoutName, plan) >>
    /\ plan' = <<>>
    /\ pc' = "exported"
    /\ UNCHANGED <<fetchVars, wire, flat, i, merged, emittedAt, rebuilt>>
    /\ UNCHANGED <<dryRun, upc, uploadIndex, errors, successful, failed,
                   failedWorkouts, outcome, trace>>

\* the return of transformSingleWorkout; plan holds the steps of the segment
ExportWorkout ==
    /\ pc = "plan"
    /\ \E workoutName \in WorkoutNames :
          workouts' = << DetailedWorkoutOf(7, workoutName, plan) >>
    /\ pc' = "exported"
    /\ UNCHANGED <<fetchVars, wire, flat, i, merged, emittedAt, plan, rebuilt>>
    /\ UNCHANGED <<dryRun, upc, uploadIndex, errors, successful, failed,
                   failedWorkouts, outcome, trace>>

\* validateWorkout on the exported workout
ValidateExported ==
    /\ pc = "exported"
    /\ errors' = validateWorkoutsForUpload(workouts)
    /\ pc' = "validated"
    /\ UNCHANGED <<fetchVars, wire, flat, i, merged, emittedAt, plan, rebuilt>>
    /\ UNCHANGED <<workouts, dryRun, upc, uploadIndex, successful, failed,
                   failedWorkouts, outcome, trace>>

\* buildGarminWorkoutDetail on the exported workout that passed
RebuildExported ==
    /\ pc = "validated"
    /\ errors = <<>>
    /\ rebuilt' = buildGarminWorkoutDetail(workouts[1])
    /\ pc' = "rebuilt"
    /\ UNCHANGED <<wire, flat, i, merged, emittedAt, plan, uploadVars, fetchVars>>

NextExport ==
    \/ Flatten
    \/ MergeRest
    \/ MergeKeep
    \/ Renumber
    \/ ExportWorkout
    \/ ValidateExported
    \/ RebuildExported

SpecExport == InitExport /\ [][NextExport]_vars

----------------------------------------------------------------------------
(* Fetch: fetchWorkoutsWithRaw.  What the backend lists and what it answers *)
(* to getWorkoutDetail for a listed workout is not decided by the program:  *)
(* a listed workout of the model carries, as details, the answer            *)
(* fetchWorkoutDetails gets for it.  fetched[i] of the code is              *)
(* fetched[fetchIndex + 1] here.                                            *)

MaxFetched == 2     \* workouts the backend lists

\* fetchWorkoutDetails returned null (no details, or the request failed)
NoDetails == [ found |-> FALSE ]

DetailsOf(workoutSegments) == [ found |-> TRUE, workoutSegments |-> workoutSegments ]

\* a null entry in a workoutSteps array
NullStep == [ type |-> "null" ]

DetailsInputs ==
    { NoDetails,
      [ found |-> TRUE ],
      DetailsOf(<< [ workoutSteps |-> <<ExerciseLeaf, RestLeaf(2, "time", 60)>> ] >>),
      DetailsOf(<< [ workoutSteps |-> <<ExerciseLeaf>> ],
                   [ workoutSteps |-> <<NullStep>> ] >>) }

FetchedInputs ==
    { [ workoutId |-> id, workoutName |-> "Leg Day", details |-> details ] :
        id \in {7, 9}, details \in DetailsInputs }

\* for (const step of steps) reads step.type: a TypeError on a null step
flattenStepsThrows(steps) == \E k \in 1 .. Len(steps) : steps[k].type = "null"

\* the forEach over details.workoutSegments throws
segmentsThrow(details) ==
    /\ details.found
    /\ "workoutSegments" \in DOMAIN details
    /\ \E s \in 1 .. Len(details.workoutSegments) :
           flattenStepsThrows(details.workoutSegments[s].workoutSteps)

\* steps.push(...segmentSteps) over the segments
RECURSIVE segmentSteps(_)
segmentSteps(workoutSegments) ==
    IF workoutSegments = <<>> THEN <<>>
    ELSE transformWorkoutSteps(Head(workoutSegments).workoutSteps)
         \o segmentSteps(Tail(workoutSegments))

\* rawWorkouts.push({...workout, ...(details || {})})
rawOf(workout, details) ==
    [ workoutId |-> workout.workoutId, workoutName |-> workout.workoutName,
      detailed |-> details.found ]

\* the entry pushed to detailedWorkouts when the transformation went through
detailedOf(workout, details) ==
    DetailedWorkoutOf(workout.workoutId, workout.workoutName,
                      IF details.found /\ "workoutSegments" \in DOMAIN details
                      THEN segmentSteps(details.workoutSegments) ELSE <<>>)

\* "basic info": the entry without steps
basicOf(workout) == DetailedWorkoutOf(workout.workoutId, workout.workoutName, <<>>)

InitFetch ==
    /\ wire = <<>>
    /\ flat = <<>>
    /\ i = 0
    /\ merged = <<>>
    /\ emittedAt = <<>>
    /\ plan = <<>>
    /\ rebuilt = <<>>
    /\ pc = "fetch"
    /\ UploadIdle
    /\ includeDetails \in BOOLEAN
    /\ fetched \in SeqsUpTo(FetchedInputs, MaxFetched)
    /\ fetchIndex = 0
    /\ rawWorkouts = <<>>
    /\ detailedWorkouts = <<>>
    /\ fpc = "start"

\* the return of the outer catch
FetchFailed ==
    /\ rawWorkouts' = <<>>
    /\ detailedWorkouts' = <<>>
    /\ fpc' = "done"

\* up to the loop: mock mode, authentication, getWorkouts, and the branch
\* without details
FetchStart ==
    /\ fpc = "start"
    /\ \/ \* mock mode: the mock workouts carry their segments
          IF \E k \in 1 .. Len(fetched) : segmentsThrow(fetched[k].details)
          THEN FetchFailed
          ELSE /\ rawWorkouts' = [k \in 1 .. Len(fetched) |->
                                     rawOf(fetched[k], fetched[k].details)]
               /\ detailedWorkouts' = [k \in 1 .. Len(fetched) |->
                                          detailedOf(fetched[k], fetched[k].details)]
               /\ fpc' = "done"
       \/ \* not authenticated, or getWorkouts is not available
          FetchFailed
       \/ /\ includeDetails
          /\ fpc' = "loop"
          /\ UNCHANGED <<rawWorkouts, detailedWorkouts>>
       \/ /\ ~includeDetails
          /\ detailedWorkouts' = [k \in 1 .. Len(fetched) |-> basicOf(fetched[k])]
          /\ rawWorkouts' = [k \in 1 .. Len(fetched) |-> rawOf(fetched[k], NoDetails)]
          /\ fpc' = "done"
    /\ UNCHANGED <<includeDetails, fetched, fetchIndex, codecVars, uploadVars>>

\* one iteration of the loop: the try block, and the catch block when the
\* try block threw
FetchIteration ==
    /\ fpc = "loop"
    /\ fetchIndex < Len(fetched)
    /\ LET workout == fetched[fetchIndex + 1]
           details == workout.details
           stored  == Append(rawWorkouts, rawOf(workout, details))
       IN  IF segmentsThrow(details)
           THEN /\ rawWorkouts' = Append(stored, rawOf(workout, NoDetails))
                /\ detailedWorkouts' = Append(detailedWorkouts, basicOf(workout))
           ELSE /\ rawWorkouts' = stored
                /\ detailedWorkouts' = Append(detailedWorkouts, detailedOf(workout, details))
    /\ fetchIndex' = fetchIndex + 1
    /\ UNCHANGED <<includeDetails, fetched, fpc, codecVars, uploadVars>>

FetchReturn ==
    /\ fpc = "loop"
    /\ fetchIndex >= Len(fetched)
    /\ fpc' = "done"
    /\ UNCHANGED <<includeDetails, fetched, fetchIndex, rawWorkouts, detailedWorkouts,
                   codecVars, uploadVars>>

NextFetch ==
    \/ FetchStart
    \/ FetchIteration
    \/ FetchReturn

SpecFetch == InitFetch /\ [][NextFetch]_vars

----------------------------------------------------------------------------
(* Helpers of the properties *)

\* the leaves of a wire tree, depth first, left to right
RECURSIVE LeavesOf(_)
LeavesOf(steps) ==
    IF steps = <<>> THEN <<>>
    ELSE (IF IsRepeatGroup(Head(steps))
          THEN LeavesOf(Head(steps).workoutSteps)
          ELSE <<Head(steps)>>)
         \o LeavesOf(Tail(steps))

\* for each leaf, depth first: the numberOfIterations of the groups around
\* it, outermost first
RECURSIVE EnclosingIterations(_, _)
EnclosingIterations(steps, outer) ==
    IF steps = <<>> THEN <<>>
    ELSE (IF IsRepeatGroup(Head(steps))
          THEN EnclosingIterations(Head(steps).workoutSteps,
                                   Append(outer, Head(steps).numberOfIterations))
          ELSE <<outer>>)
         \o EnclosingIterations(Tail(steps), outer)

\* a wire tree with every stepOrder field erased
RECURSIVE IgnoringStepOrder(_)
IgnoringStepOrder(steps) ==
    [k \in 1 .. Len(steps) |->
        IF IsRepeatGroup(steps[k])
        THEN [steps[k] EXCEPT !.workoutSteps = IgnoringStepOrder(steps[k].workoutSteps)]
        ELSE [steps[k] EXCEPT !.stepOrder = NoNum]]

\* the duration a rest step stands for
RestDuration(restStep) ==
    IF restStep.durationSeconds # NoNum THEN restStep.durationSeconds
    ELSE restStep.endConditionValue

----------------------------------------------------------------------------
(* C1: the rebuild of flatten+merge of a wire sequence equals the wire     *)
(* sequence when the stepOrder fields are ignored.                         *)
C1_RoundTrip ==
    pc = "rebuilt" => IgnoringStepOrder(rebuilt) = IgnoringStepOrder(wire)

(* C3: after flatten, merge and renumber the stepOrder values of the       *)
(* returned steps are 1..N in emission order, N the post-merge count.      *)
C3_StepOrderContiguous ==
    pc \in {"plan", "rebuilt"} =>
        /\ Len(plan) = Len(merged)
        /\ \A k \in 1 .. Len(plan) : plan[k].stepOrder = k

C3_Witness ==
    /\ pc = "plan"
    /\ Len(plan) >= 2
    /\ Len(plan) < Len(flat)
    /\ \E k \in 1 .. Len(merged) : merged[k].stepOrder # k

(* C4: when a non-rest step is followed by two consecutive rests, the      *)
(* first rest is folded into the non-rest step, the second stays a step of *)
(* its own with its own duration, and no step consumes more than one rest. *)
C4_Pattern(F, j) ==
    /\ j + 2 < Len(F)
    /\ F[j + 1].stepType # "rest"
    /\ F[j + 2].stepType = "rest"
    /\ F[j + 3].stepType = "rest"

C4_OnlyFirstRestMerged ==
    pc \in {"plan", "rebuilt"} =>
        LET F == flattenSteps(wire)
        IN  /\ \A j \in 0 .. (Len(F) - 3) :
                   C4_Pattern(F, j) =>
                       \E k \in 1 .. (Len(plan) - 1) :
                           /\ emittedAt[k] = j
                           /\ plan[k].stepType = F[j + 1].stepType
                           /\ plan[k].restTimeSeconds = RestDuration(F[j + 2])
                           /\ emittedAt[k + 1] = j + 2
                           /\ plan[k + 1].stepType = "rest"
                           /\ plan[k + 1].durationSeconds = F[j + 3].durationSeconds
                           /\ plan[k + 1].endConditionValue = F[j + 3].endConditionValue
            /\ \A k \in 1 .. Len(plan) :
                   (IF k < Len(plan) THEN emittedAt[k + 1] ELSE Len(F)) - emittedAt[k] <= 2

C4_Witness ==
    /\ pc = "plan"
    /\ LET F == flattenSteps(wire)
       IN  /\ Len(F) = 3
           /\ C4_Pattern(F, 0)
           /\ F[2].durationSeconds = 30
           /\ F[3].durationSeconds = 60
    /\ Len(plan) = 2
    /\ plan[1].restTimeSeconds = 30
    /\ plan[2].durationSeconds = 60

(* C5 as stated: a step produced from a repeat-group carries that group's  *)
(* numberOfIterations, for every group around it; a step from a leaf       *)
(* outside any group has numberOfRepeats unset.                            *)
C5_RepeatsOfEveryGroup ==
    pc # "start" =>
        LET E == EnclosingIterations(wire, <<>>)
        IN  /\ Len(flat) = Len(E)
            /\ \A k \in 1 .. Len(E) :
                   /\ E[k] = <<>> => flat[k].numberOfRepeats = NoNum
                   /\ \A m \in 1 .. Len(E[k]) : flat[k].numberOfRepeats = E[k][m]

(* C5 amended: a step produced from inside repeat-groups carries the       *)
(* numberOfIterations of the outermost group around it (so all steps of    *)
(* that group share one value); a step from a leaf outside any group has   *)
(* numberOfRepeats unset.                                                  *)
C5_RepeatsOfOutermostGroup ==
    pc # "start" =>
        LET E == EnclosingIterations(wire, <<>>)
        IN  /\ Len(flat) = Len(E)
            /\ \A k \in 1 .. Len(E) :
                   flat[k].numberOfRepeats = IF E[k] = <<>> THEN NoNum ELSE E[k][1]

C5_Witness ==
    /\ pc = "merge"
    /\ LET E == EnclosingIterations(wire, <<>>)
       IN  /\ Len(E) = 2
           /\ E[1] = <<>>
           /\ E[2] = <<3, 2>>
    /\ flat[2].numberOfRepeats = 3

RECURSIVE C10_ExpectedOrders(_)
C10_ExpectedOrders(steps) ==
    IF steps = <<>> THEN <<>>
    ELSE <<IF Head(steps).stepOrder \in {NoNum, 0} THEN NoNum ELSE Head(steps).stepOrder>>
         \o (IF Head(steps).restTimeSeconds # NoNum /\ Head(steps).restTimeSeconds > 0
             THEN <<NoNum>> ELSE <<>>)
         \o C10_ExpectedOrders(Tail(steps))

C8_RunEnd(P, k) ==
    CHOOSE m \in k .. Len(P) :
        /\ \A j \in k .. m : P[j].numberOfRepeats = P[k].numberOfRepeats
        /\ m < Len(P) => P[m + 1].numberOfRepeats # P[k].numberOfRepeats

\* the output the claim describes for the runs of P from index k on
RECURSIVE C8_RunsFrom(_, _)
C8_RunsFrom(P, k) ==
    IF k > Len(P) THEN <<>>
    ELSE LET m == C8_RunEnd(P, k)
             shared == P[k].numberOfRepeats
             leaves == garminStepsOf(SubSeq(P, k, m))
         IN  (IF shared # NoNum /\ shared > 1
              THEN << [ type               |-> "RepeatGroupDTO",
                        numberOfIterations |-> shared,
                        smartRepeat        |-> FALSE,
                        workoutSteps       |-> leaves ] >>
              ELSE leaves)
             \o C8_RunsFrom(P, m + 1)

(* C8: the Rebuilder splits the flat sequence into maximal contiguous runs *)
(* of equal numberOfRepeats; a run becomes one RepeatGroup carrying the    *)
(* shared value iff that value is present and greater than 1, otherwise    *)
(* its leaves stand at top level; the runs keep the input order.           *)
C8_RunsBecomeGroups ==
    pc = "rebuilt" => rebuilt = C8_RunsFrom(plan, 1)

C8_Witness ==
    /\ pc = "rebuilt"
    /\ Len(plan) = 3
    /\ plan[1].numberOfRepeats = 2
    /\ plan[2].numberOfRepeats = 2
    /\ plan[3].numberOfRepeats = 1
    /\ Len(rebuilt) = 2
    /\ IsRepeatGroup(rebuilt[1])
    /\ ~IsRepeatGroup(rebuilt[2])

\* index in the depth-first leaf sequence of the leaf converted from step k
C9_LeafOf(P, k) ==
    k + Cardinality({ j \in 1 .. (k - 1) : P[j].restTimeSeconds # NoNum /\ P[j].restTimeSeconds > 0 })

\* for each leaf, depth first: the index of the top-level node that holds it
RECURSIVE C9_TopOf(_, _)
C9_TopOf(steps, k) ==
    IF k > Len(steps) THEN <<>>
    ELSE (IF IsRepeatGroup(steps[k])
          THEN [j \in 1 .. Len(steps[k].workoutSteps) |-> k]
          ELSE <<k>>)
         \o C9_TopOf(steps, k + 1)

C9_IsRestLeaf(leaf, seconds) ==
    /\ leaf.type = "ExecutableStepDTO"
    /\ leaf.stepType = [stepTypeId |-> 3, stepTypeKey |-> "rest"]
    /\ leaf.endCondition = [conditionTypeId |-> 2, conditionTypeKey |-> "time"]
    /\ leaf.endConditionValue = seconds
    /\ leaf.targetType = [workoutTargetTypeId |-> 1, workoutTargetTypeKey |-> "no.target"]
    /\ leaf.targetValueOne = NoNum
    /\ leaf.targetValueTwo = NoNum

(* C9: a plan step with restTimeSeconds > 0 is followed, right after its   *)
(* own leaf and inside the same run or RepeatGroup, by a rest leaf (rest,  *)
(* code 3; time, code 2; value restTimeSeconds; no.target); a step whose   *)
(* restTimeSeconds is absent or 0 gets no rest leaf.                       *)
C9_RestLeafAfterStep ==
    pc = "rebuilt" =>
        LET L   == LeavesOf(rebuilt)
            top == C9_TopOf(rebuilt, 1)
            withRest == { k \in 1 .. Len(plan) :
                            plan[k].restTimeSeconds # NoNum /\ plan[k].restTimeSeconds > 0 }
        IN  /\ Len(L) = Len(plan) + Cardinality(withRest)
            /\ \A k \in 1 .. Len(plan) :
                   LET at == C9_LeafOf(plan, k)
                   IN  /\ L[at].stepType.stepTypeKey = plan[k].stepType
                       /\ L[at].endConditionValue = plan[k].endConditionValue
                       /\ k \in withRest =>
                              /\ C9_IsRestLeaf(L[at + 1], plan[k].restTimeSeconds)
                              /\ IF IsRepeatGroup(rebuilt[top[at]])
                                 THEN top[at + 1] = top[at]
                                 ELSE top[at + 1] = top[at] + 1
                                      /\ ~IsRepeatGroup(rebuilt[top[at + 1]])

C9_Witness ==
    /\ pc = "rebuilt"
    /\ Len(plan) = 3
    /\ plan[1].restTimeSeconds = 45 /\ plan[1].numberOfRepeats = 3
    /\ plan[2].restTimeSeconds = 0  /\ plan[2].numberOfRepeats = 3
    /\ plan[3].restTimeSeconds = 45 /\ plan[3].numberOfRepeats = NoNum
    /\ Len(rebuilt) = 3
    /\ Len(rebuilt[1].workoutSteps) = 3
    /\ C9_IsRestLeaf(rebuilt[3], 45)

----------------------------------------------------------------------------
(* C6: the Step Normalizer sets the parallel field that matches the end    *)
(* condition (reps for "reps", durationSeconds for "time", distanceMeters  *)
(* for "distance") to endConditionValue and leaves the other two unset;    *)
(* for any other end condition, or none, all three are unset.              *)
C6_ParallelFields ==
    pc = "normalized" =>
        LET leaf  == wire[1]
            step  == plan[1]
            key   == leaf.endCondition.conditionTypeKey
            value == leaf.endConditionValue
        IN  /\ step.reps            = (IF key = "reps"     THEN value ELSE NoNum)
            /\ step.durationSeconds = (IF key = "time"     THEN value ELSE NoNum)
            /\ step.distanceMeters  = (IF key = "distance" THEN value ELSE NoNum)

C6_Witness ==
    /\ pc = "normalized"
    /\ wire[1].endCondition.conditionTypeKey = "time"
    /\ wire[1].endConditionValue = 12
    /\ plan[1].durationSeconds = 12
    /\ plan[1].reps = NoNum
    /\ plan[1].distanceMeters = NoNum

----------------------------------------------------------------------------
C2_IsValid(w) == validateWorkout(workouts[w]).rule = "ok"

(* C2: in uploadWorkout validation comes before any remote write: every    *)
(* authentication, delete or create of a workout follows, inside the same  *)
(* call, the successful validation of that workout; for a workout that     *)
(* fails validateWorkout the call returns false right after the validation *)
(* and no authentication, delete or create is made for it.                 *)
C2_ValidationBeforeRemoteWrite ==
    \A k \in 1 .. Len(trace) :
        /\ trace[k].op \in {"auth", "delete", "create"} =>
              /\ C2_IsValid(trace[k].w)
              /\ \E j \in 1 .. (k - 1) :
                    /\ trace[j] = [op |-> "validate", w |-> trace[k].w, ok |-> TRUE]
                    /\ \A m \in j .. k : trace[m].w = trace[k].w /\ trace[m].op # "return"
        /\ trace[k].op = "validate" =>
              /\ trace[k].ok = C2_IsValid(trace[k].w)
              /\ ~trace[k].ok =>
                    /\ k < Len(trace)
                    /\ trace[k + 1] = [op |-> "return", w |-> trace[k].w, ok |-> FALSE]

C2_Witness ==
    /\ ~dryRun
    /\ outcome = "returned"
    /\ Len(workouts) = 2
    /\ ~C2_IsValid(1)
    /\ workouts[1].workoutId # NoNum
    /\ trace = << [op |-> "validate", w |-> 1, ok |-> FALSE],
                  [op |-> "return",   w |-> 1, ok |-> FALSE],
                  [op |-> "validate", w |-> 2, ok |-> TRUE],
                  [op |-> "auth",     w |-> 2, ok |-> TRUE],
                  [op |-> "delete",   w |-> 2, ok |-> TRUE],
                  [op |-> "create",   w |-> 2, ok |-> TRUE],
                  [op |-> "return",   w |-> 2, ok |-> TRUE] >>

----------------------------------------------------------------------------
(* C7: the list returned by validateWorkoutsForUpload reports every step   *)
(* that violates a rule, in every workout of the list, several steps of    *)
(* one workout included.                                                   *)
C7_EveryOffendingStepReported ==
    (dryRun /\ upc # "dryrun") =>
        \A w \in 1 .. Len(workouts) :
            \A s \in 1 .. Len(workouts[w].steps) :
                validateWorkoutStep(workouts[w].steps[s]) # "ok" =>
                    \E e \in 1 .. Len(errors) :
                        errors[e].workout = w /\ errors[e].step = s

----------------------------------------------------------------------------
\* v is Math.round(w * 453.59237), w * 453.59237 being w * 45359237 / 100000:
\* v - 1/2 <= w * 453.59237 < v + 1/2, with 453 * w taken out of both sides
C11_IsRoundedGrams(v, w) ==
    LET d == v - 453 * w
    IN  /\ d >= 0 /\ d <= w
        /\ 2 * (d * 100000 - w * 59237) <= 100000
        /\ 2 * (w * 59237 - d * 100000) < 100000

C11_Gram == [unitId |-> 11, unitKey |-> "gram"]

----------------------------------------------------------------------------
----------------------------------------------------------------------------
\* n is Math.round(v / 453.59237): (2n - 1) * 45359237 <= 2 * v * 100000
\* < (2n + 1) * 45359237, with 2 * 453 * n * 100000 taken out of all sides
C18_IsRoundedPounds(n, v) ==
    LET d == v - 453 * n
    IN  /\ n >= 0 /\ n <= v
        /\ d >= 0 - 227 /\ d <= 227 + n
        /\ 0 - 45359237 <= 2 * (d * 100000 - n * 59237)
        /\ 2 * (d * 100000 - n * 59237) < 45359237

----------------------------------------------------------------------------
\* the fields of a logical step
C13_Logical(step) ==
    [ stepType          |-> step.stepType,
      exerciseName      |-> step.exerciseName,
      endCondition      |-> step.endCondition,
      endConditionValue |-> step.endConditionValue,
      targetType        |-> step.targetType,
      weight            |-> step.weight,
      restTimeSeconds   |-> step.restTimeSeconds,
      numberOfRepeats   |-> step.numberOfRepeats ]

C13_SameLogicalSteps(P, Q) ==
    /\ Len(P) = Len(Q)
    /\ \A k \in 1 .. Len(P) : C13_Logical(P[k]) = C13_Logical(Q[k])

\* the rebuilt steps have been through transformWorkoutSteps
C13_Reflattened == pc = "plan" /\ wire # <<>>

C13_Reemitted(P) ==
    \A k \in 1 .. Len(P) :
        /\ P[k].stepType # "rest"
        /\ P[k].weight # 0
        /\ P[k].restTimeSeconds # 0
        /\ P[k].numberOfRepeats # 1

----------------------------------------------------------------------------
(* The rules of the Validator, each said on its own.                       *)

\* validateWorkoutsForUpload has run on a file of one workout
V_Validated == pc = "upload" /\ dryRun /\ upc # "dryrun" /\ Len(workouts) = 1

\* the step under test is the last step of the workout
V_Step == workouts[1].steps[Len(workouts[1].steps)]

V_Rejected == errors # <<>>

V_Rule == IF errors = <<>> THEN "ok" ELSE errors[1].rule

V_Violated(step) ==
    [ stepType         |-> step.stepType \notin VALID_STEP_TYPES,
      endCondition     |-> \/ step.endCondition = NoKey /\ step.stepType # "rest"
                           \/ step.endCondition # NoKey
                              /\ step.endCondition \notin VALID_END_CONDITIONS
                           \/ step.endCondition # NoKey /\ step.endConditionValue = NoNum
                           \/ step.endConditionValue # NoNum /\ step.endConditionValue <= 0,
      targetType       |-> step.targetType \notin VALID_TARGET_TYPES,
      weight           |-> step.weight # NoNum /\ step.weight \notin 0 .. 1000,
      weightPercentage |-> step.weightPercentage # NoNum
                           /\ (step.weightPercentage \notin 1 .. 200
                               \/ step.benchmarkKey = NoKey),
      reps             |-> step.reps # NoNum /\ step.reps <= 0,
      durationSeconds  |-> step.durationSeconds # NoNum /\ step.durationSeconds <= 0,
      distanceMeters   |-> step.distanceMeters # NoNum /\ step.distanceMeters <= 0,
      restTimeSeconds  |-> step.restTimeSeconds # NoNum /\ step.restTimeSeconds < 0,
      numberOfRepeats  |-> step.numberOfRepeats # NoNum /\ step.numberOfRepeats <= 0,
      crossField       |-> \/ step.endCondition = "reps" /\ step.reps # NoNum
                              /\ step.reps # step.endConditionValue
                           \/ step.endCondition = "time" /\ step.durationSeconds # NoNum
                              /\ step.durationSeconds # step.endConditionValue
                           \/ step.endCondition = "distance" /\ step.distanceMeters # NoNum
                              /\ step.distanceMeters # step.endConditionValue ]

V_Order ==
    << "stepType", "endCondition", "targetType", "weight", "weightPercentage", "reps",
       "durationSeconds", "distanceMeters", "restTimeSeconds", "numberOfRepeats",
       "crossField" >>

\* the rule group an error belongs to
V_GroupOf(rule) ==
    CASE rule \in {"stepType.missing", "stepType.invalid"} -> "stepType"
      [] rule \in {"endCondition.missing", "endCondition.invalid",
                   "endConditionValue.missing", "endConditionValue.notPositive"}
                                                           -> "endCondition"
      [] rule \in {"targetType.missing", "targetType.invalid"} -> "targetType"
      [] rule \in {"weight.negative", "weight.tooHigh"} -> "weight"
      [] rule \in {"weightPercentage.range", "benchmarkKey.missing"} -> "weightPercentage"
      [] rule = "reps.notPositive" -> "reps"
      [] rule = "durationSeconds.notPositive" -> "durationSeconds"
      [] rule = "distanceMeters.notPositive" -> "distanceMeters"
      [] rule = "restTimeSeconds.negative" -> "restTimeSeconds"
      [] rule = "numberOfRepeats.notPositive" -> "numberOfRepeats"
      [] rule \in {"reps.mismatch", "durationSeconds.mismatch", "distanceMeters.mismatch"}
                                                           -> "crossField"
      [] OTHER -> "none"

\* no rule group but g is violated by step
V_OnlyViolates(step, g) ==
    LET violated == V_Violated(step)
    IN  \A k \in 1 .. Len(V_Order) : violated[V_Order[k]] => V_Order[k] = g

----------------------------------------------------------------------------
\* the mismatch error the step calls for, "ok" when its parallel field equals
\* endConditionValue or is unset
C14_Mismatch(step) ==
    IF step.endCondition = "reps" /\ step.reps # NoNum
       /\ step.reps # step.endConditionValue THEN "reps.mismatch"
    ELSE IF step.endCondition = "time" /\ step.durationSeconds # NoNum
       /\ step.durationSeconds # step.endConditionValue THEN "durationSeconds.mismatch"
    ELSE IF step.endCondition = "distance" /\ step.distanceMeters # NoNum
       /\ step.distanceMeters # step.endConditionValue THEN "distanceMeters.mismatch"
    ELSE "ok"

(* C14: a step whose endCondition is reps, time or distance and whose      *)
(* parallel field (reps, durationSeconds, distanceMeters) is set to a      *)
(* value different from endConditionValue is rejected, with the mismatch   *)
(* error of that field when it breaks no other rule; a step whose parallel *)
(* field equals endConditionValue or is unset gets no mismatch error.      *)
C14_MismatchRejected ==
    V_Validated =>
        /\ C14_Mismatch(V_Step) # "ok" => V_Rejected
        /\ (C14_Mismatch(V_Step) # "ok" /\ V_OnlyViolates(V_Step, "crossField"))
               => V_Rule = C14_Mismatch(V_Step)
        /\ C14_Mismatch(V_Step) = "ok" => V_GroupOf(V_Rule) # "crossField"

C14_Witness ==
    /\ V_Validated
    /\ V_Step.endCondition = "time" /\ V_Step.endConditionValue = 10
    /\ V_Step.durationSeconds = 8
    /\ V_OnlyViolates(V_Step, "crossField")
    /\ V_Rule = "durationSeconds.mismatch"

----------------------------------------------------------------------------
(* C15: a step without targetType, or with a targetType outside the closed *)
(* set, is rejected whatever its stepType, rest included, with a           *)
(* targetType error when no rule checked before is broken; a step with a   *)
(* listed targetType gets no targetType error.                             *)
C15_TargetTypeRequired ==
    V_Validated =>
        /\ V_Step.targetType \notin VALID_TARGET_TYPES => V_Rejected
        /\ (V_Step.targetType \notin VALID_TARGET_TYPES
            /\ ~V_Violated(V_Step).stepType /\ ~V_Violated(V_Step).endCondition)
               => V_Rule = (IF V_Step.targetType = NoKey THEN "targetType.missing"
                            ELSE "targetType.invalid")
        /\ V_Step.targetType \in VALID_TARGET_TYPES => V_GroupOf(V_Rule) # "targetType"

C15_Witness ==
    /\ V_Validated
    /\ V_Step.stepType = "rest"
    /\ V_Step.targetType = NoKey
    /\ V_OnlyViolates(V_Step, "targetType")
    /\ V_Rule = "targetType.missing"

----------------------------------------------------------------------------
(* C16: a step with weightPercentage is accepted only when the value lies  *)
(* in (0, 200] and a benchmarkKey is present: outside the interval, or     *)
(* without benchmarkKey, it is rejected, and when it breaks no other rule  *)
(* and the value is in the interval with a benchmarkKey it is accepted.    *)
C16_WeightPercentageRange ==
    (V_Validated /\ V_Step.weightPercentage # NoNum) =>
        LET inRange == V_Step.weightPercentage > 0 /\ V_Step.weightPercentage <= 200
            hasKey  == V_Step.benchmarkKey # NoKey
        IN  /\ ~V_Rejected => (inRange /\ hasKey)
            /\ (inRange /\ hasKey) => V_GroupOf(V_Rule) # "weightPercentage"
            /\ (inRange /\ hasKey /\ V_OnlyViolates(V_Step, "weightPercentage"))
                   => ~V_Rejected
            /\ (~inRange /\ V_OnlyViolates(V_Step, "weightPercentage"))
                   => V_Rule = "weightPercentage.range"
            /\ (inRange /\ ~hasKey /\ V_OnlyViolates(V_Step, "weightPercentage"))
                   => V_Rule = "benchmarkKey.missing"

C16_Witness ==
    /\ V_Validated
    /\ V_Step.weightPercentage = 200
    /\ V_Step.benchmarkKey # NoKey
    /\ ~V_Rejected

----------------------------------------------------------------------------
\* the first rule group of V_Order the step violates, "none" when it
\* violates no rule
C17_EarliestViolated(step) ==
    LET violated == V_Violated(step)
        broken   == { k \in 1 .. Len(V_Order) : violated[V_Order[k]] }
    IN  IF broken = {} THEN "none"
        ELSE V_Order[CHOOSE k \in broken : \A m \in broken : k <= m]

----------------------------------------------------------------------------
\* the three tables, and the code of a key: the listed id, else the default
C19_StepTypeIds ==
    { <<"warmup", 1>>, <<"cooldown", 2>>, <<"interval", 3>>, <<"rest", 3>>,
      <<"recovery", 4>>, <<"exercise", 6>>, <<"repeat", 7>>, <<"other", 8>> }

C19_EndConditionIds ==
    { <<"lap.button", 1>>, <<"time", 2>>, <<"distance", 3>>, <<"calories", 4>>,
      <<"heart.rate", 5>>, <<"reps", 6>>, <<"iterations", 7>> }

C19_TargetTypeIds ==
    { <<"no.target", 1>>, <<"heart.rate.zone", 2>>, <<"pace.zone", 3>>,
      <<"speed.zone", 4>>, <<"power.zone", 6>>, <<"cadence.zone", 7>>, <<"open", 8>> }

C19_CodeOf(table, key, default) ==
    IF \E pair \in table : pair[1] = key
    THEN (CHOOSE pair \in table : pair[1] = key)[2]
    ELSE default

(* C19: the Rebuilder codes every listed stepType, endCondition and        *)
(* targetType key with the id of its table, and every key no table lists   *)
(* with the default code: 6 for a step type, 1 for an end condition, 1 for *)
(* a target type.                                                          *)
C19_ListedIdOrDefault ==
    (pc = "rebuilt" /\ Len(plan) = 1) =>
        /\ rebuilt[1].stepType.stepTypeId = C19_CodeOf(C19_StepTypeIds, plan[1].stepType, 6)
        /\ plan[1].endCondition # NoKey =>
              rebuilt[1].endCondition.conditionTypeId
                  = C19_CodeOf(C19_EndConditionIds, plan[1].endCondition, 1)
        /\ plan[1].targetType # NoKey =>
              rebuilt[1].targetType.workoutTargetTypeId
                  = C19_CodeOf(C19_TargetTypeIds, plan[1].targetType, 1)

----------------------------------------------------------------------------
C20_Invalid == { w \in 1 .. Len(workouts) : validateWorkout(workouts[w]).rule # "ok" }

(* C20: a dry run of uploadWorkoutsFromFile only validates and previews:   *)
(* it makes no authentication, delete or create call; when a workout fails *)
(* validation it throws with one collected error per failing workout and   *)
(* previews nothing; otherwise it previews every workout and returns       *)
(* successful = number of workouts, failed = 0 and no failed workouts.     *)
C20_DryRunOnlyValidates ==
    (pc = "upload" /\ dryRun) =>
        /\ \A k \in 1 .. Len(trace) : trace[k].op \in {"validate", "return"}
        /\ (upc # "dryrun" /\ C20_Invalid # {}) =>
              /\ outcome = "thrown"
              /\ Len(errors) = Cardinality(C20_Invalid)
              /\ trace = <<>>
        /\ outcome = "thrown" => C20_Invalid # {}
        /\ upc = "done" => outcome \in {"thrown", "returned"}
        /\ outcome = "returned" =>
              /\ C20_Invalid = {}
              /\ errors = <<>>
              /\ successful = Len(workouts) /\ failed = 0 /\ failedWorkouts = <<>>
              /\ trace = [k \in 1 .. 2 * Len(workouts) |->
                            [op |-> IF k % 2 = 1 THEN "validate" ELSE "return",
                             w |-> (k + 1) \div 2, ok |-> TRUE]]

C20_Witness ==
    /\ pc = "upload" /\ dryRun
    /\ outcome = "returned"
    /\ Len(workouts) = 2
    /\ workouts[1].workoutId # NoNum
    /\ Len(workouts[1].steps) = 2
    /\ successful = 2
    /\ Len(trace) = 4

----------------------------------------------------------------------------
\* C21: the codec operations are pure with respect to their inputs:
\* transformWorkoutSteps leaves the wire steps it is given unchanged,
\* validateWorkout / validateWorkoutsForUpload and unflattenSteps leave the
\* workouts and their steps unchanged, and a second call on the same input
\* gives a result equal to the first one.
C21_SecondCallEqual ==
    /\ pc \notin {"start", "merge"} => plan = transformWorkoutSteps(wire)
    /\ pc \in {"validated", "rebuilt"} => errors = validateWorkoutsForUpload(workouts)
    /\ pc = "rebuilt" => rebuilt = buildGarminWorkoutDetail(workouts[1])

----------------------------------------------------------------------------
\* C22: in the output of mergeRestIntoExercises no step whose stepType is
\* "rest" carries restTimeSeconds (a rest is folded only into a non-rest step).
C22_RestNeverCarriesRest ==
    \A k \in 1 .. Len(merged) :
        merged[k].stepType = "rest" => merged[k].restTimeSeconds = NoNum

----------------------------------------------------------------------------
\* C23: in a live run the remote backend sees one request at a time in file
\* order: the calls are made workout by workout; for a workout deleteWorkout
\* is called at most once, only when the workout has a workoutId, and has
\* completed before createWorkout is called; createWorkout is called at most
\* once, after a successful authentication and never after a failed delete.
C23_Remote == {"auth", "delete", "create"}

C23_OneRequestAtATime ==
    ~dryRun =>
        /\ \A a, b \in 1 .. Len(trace) :
               a < b =>
                   /\ trace[a].w <= trace[b].w
                   /\ trace[a].w = trace[b].w /\ trace[b].op \in C23_Remote =>
                          /\ trace[a].ok
                          /\ trace[a].op # trace[b].op
                          /\ trace[a].op # "create"
                          /\ trace[a].op # "return"
                          /\ trace[b].op = "auth" => trace[a].op = "validate"
        /\ \A a \in 1 .. Len(trace) :
               /\ trace[a].w \in 1 .. Len(workouts)
               /\ trace[a].w <= uploadIndex + 1
               /\ trace[a].op = "delete" => workouts[trace[a].w].workoutId # NoNum
        \* a call is in progress only for the workout the loop is at
        /\ upc \in {"auth", "delete", "create"} =>
               /\ uploadIndex < Len(workouts)
               /\ \A a \in 1 .. Len(trace) :
                      trace[a].w = uploadIndex + 1 => trace[a].op # "return"

\* two workouts were uploaded, the first one replaced (deleted and created)
C23_Witness ==
    /\ ~dryRun
    /\ outcome = "returned"
    /\ Len(workouts) = 2
    /\ \E a, b, c \in 1 .. Len(trace) :
          /\ a < b /\ b < c
          /\ trace[a] = [op |-> "delete", w |-> 1, ok |-> TRUE]
          /\ trace[b] = [op |-> "create", w |-> 1, ok |-> TRUE]
          /\ trace[c] = [op |-> "create", w |-> 2, ok |-> TRUE]

----------------------------------------------------------------------------
\* C24: a live run continues past the failure of any single workout and
\* always ends by returning a summary: successful + failed is the number of
\* workouts of the file and failedWorkouts holds the names of the workouts
\* whose upload failed, in file order.
C24_IsFailure(e) == e.op = "return" /\ ~e.ok

C24_FailedNames ==
    LET failures == SelectSeq(trace, C24_IsFailure)
    IN  [k \in 1 .. Len(failures) |-> workouts[failures[k].w].workoutName]

C24_AlwaysReturnsSummary ==
    ~dryRun /\ upc = "done" =>
        /\ outcome = "returned"
        /\ successful + failed = Len(workouts)
        /\ failed = Len(failedWorkouts)
        /\ failedWorkouts = C24_FailedNames

----------------------------------------------------------------------------
\* C25: flattenSteps returns for every wire tree, of any nesting depth, and
\* emits exactly one PlanStep per wire leaf, in depth-first left-to-right
\* order: the k-th flattened step is the normalized k-th leaf (with the
\* numberOfRepeats of its group), so no leaf is dropped or duplicated.
C25_Normalized(step) ==
    [step EXCEPT !.numberOfRepeats = NoNum, !.restTimeSeconds = NoNum]

C25_OneStepPerLeaf ==
    /\ pc = "start" => ENABLED Flatten
    /\ pc # "start" =>
           LET leaves == LeavesOf(wire)
           IN  /\ Len(flat) = Len(leaves)
               /\ \A k \in 1 .. Len(leaves) :
                      C25_Normalized(flat[k]) = transformSingleStep(leaves[k])

\* a group inside a group, then a leaf that differs from the leaf in the groups
C25_Witness ==
    /\ pc = "merge"
    /\ Len(wire) = 2
    /\ IsRepeatGroup(wire[1])
    /\ IsRepeatGroup(wire[1].workoutSteps[1])
    /\ ~IsRepeatGroup(wire[2])
    /\ Len(flat) = 2
    /\ LeavesOf(wire)[1] # LeavesOf(wire)[2]

----------------------------------------------------------------------------
----------------------------------------------------------------------------
\* C27: the Rest Merger never loses a rest silently: whenever a rest step is
\* consumed (not re-emitted), the step emitted in its place has
\* restTimeSeconds defined and equal to that rest's durationSeconds, or to
\* its endConditionValue when durationSeconds is unset.
C27_ConsumedAfter(k) ==
    (IF k < Len(emittedAt) THEN emittedAt[k + 1] ELSE i) - emittedAt[k] = 2

C27_ConsumedRestKept ==
    \A k \in 1 .. Len(merged) :
        C27_ConsumedAfter(k) =>
            /\ merged[k].restTimeSeconds # NoNum
            /\ merged[k].restTimeSeconds = RestDuration(flat[emittedAt[k] + 2])

----------------------------------------------------------------------------
\* C28: the Rest Merger folds a rest only into a step of the same
\* repeat-group: whenever a rest is consumed, it and the step it was folded
\* into had equal numberOfRepeats after flattening.
C28_MergedWithinGroup ==
    \A k \in 1 .. Len(merged) :
        C27_ConsumedAfter(k) =>
            flat[emittedAt[k] + 1].numberOfRepeats = flat[emittedAt[k] + 2].numberOfRepeats

----------------------------------------------------------------------------
\* C29: fetchWorkoutsWithRaw always returns index-aligned lists: on every
\* return transformed and raw have the same length and transformed[i] and
\* raw[i] describe the same workoutId.
C29_Aligned(transformed, raw) ==
    /\ Len(transformed) = Len(raw)
    /\ \A k \in 1 .. Min(Len(transformed), Len(raw)) :
           transformed[k].workoutId = raw[k].workoutId

C29_IndexAligned ==
    fpc = "done" => C29_Aligned(detailedWorkouts, rawWorkouts)

----------------------------------------------------------------------------
\* C30: export output is accepted for upload unchanged: every workout
\* transformSingleWorkout produces from a well-formed wire workout (zero or
\* more steps; each leaf with a step type, an end condition and a positive
\* end-condition value, the target type optional) passes validateWorkout.
C30_ExportPassesValidation ==
    pc = "validated" => errors = <<>>

====
